---- MODULE Spec2Model ----
(***************************************************************************)
(* A model of the MCP connection supervisor of Roo-Code: the hub           *)
(* (McpHub), the configuration manager (ConfigManager), the reconciler     *)
(* (ConnectionManager), the connection factory (ConnectionFactory) and     *)
(* the transport handlers (StdioHandler, SseHandler, BaseHandler).         *)
(*                                                                         *)
(* The program is single-threaded JavaScript: code between two awaits on   *)
(* real I/O runs atomically.  Every asynchronous operation is a task with  *)
(* a stack of frames; a step of the model resumes one task at the I/O it   *)
(* waits for and runs it up to its next wait (operator Run).  The I/O      *)
(* waits modelled are: writing a config file, the handler's connect, the   *)
(* handler's close, and the protocol call of callTool/readResource.        *)
(* Reads of the config files and awaits on already-settled promises are    *)
(* taken as immediate.  The error fields of a server record (current       *)
(* error, error history) are followed on one record, in variable errored.  *)
(***************************************************************************)
EXTENDS Integers, Sequences, FiniteSets, TLC

\* ------------------------------------------------------------------ bounds
MaxTasks == 2
MaxOps == 2
MaxAppends == 103
MaxClientCalls == 4

\* The number of calls a detector is given
MaxChecks == 7

\* ------------------------------------------------------- program constants
MIN_TIMEOUT == 0
MAX_TIMEOUT == 3600
DEFAULT_TIMEOUT == 60
MAX_ERROR_LENGTH == 1000
MaxErrorHistory == 100
TruncationMarkerLength == 28
ExitMessagePrefixLength == 25

\* ------------------------------------------------------------ input sets
Names == {"a", "b"}
Sources == {"global", "project"}
Undefined == "undefined"
OptSources == Sources \cup {Undefined}

\* ------------------------------------------------------- sequence helpers
SeqToSet(s) == {s[i] : i \in 1..Len(s)}

\* ------------------------------------------------- configuration objects
\* A config is a JavaScript object: a function from the keys that are
\* present to their values.  EmptyObject is {}.
EmptyObject == [k \in {} |-> 0]

Has(c, k) == k \in DOMAIN c

\* { ...a, ...b }
Spread(a, b) == [k \in DOMAIN a \cup DOMAIN b |-> IF k \in DOMAIN b THEN b[k] ELSE a[k]]

Without(c, ks) == [k \in DOMAIN c \ ks |-> c[k]]

\* JavaScript truthiness of an optional boolean field
Truthy(c, k) == Has(c, k) /\ c[k] = TRUE

\* JSON.stringify / JSON.parse of a config: the stored form is a string,
\* which the model keeps as a tagged value that only JsonParse opens.
JsonStringify(c) == [json |-> c]

JsonParse(s) == s.json

\* ------------------------------------------------------------ validation
DefaultCwd == "cwd"

ValidUrls == {"u1", "u2"}

BaseKeys == {"disabled", "timeout", "alwaysAllow", "watchPaths"}

StdioKeys == BaseKeys \cup {"type", "command", "args", "cwd", "env"}

SseKeys == BaseKeys \cup {"type", "url", "headers"}

StdioShape(c) ==
    /\ Has(c, "command") /\ c.command # ""
    /\ ~Has(c, "url") /\ ~Has(c, "headers")
    /\ (Has(c, "type") => c.type = "stdio")

SseShape(c) ==
    /\ Has(c, "url") /\ c.url \in ValidUrls
    /\ ~Has(c, "command") /\ ~Has(c, "args") /\ ~Has(c, "cwd") /\ ~Has(c, "env")
    /\ (Has(c, "type") => c.type = "sse")

\* A parse that looks at the command, then at the url, and at nothing else
safeParseServerConfig_byFirstField(c) ==
    IF Has(c, "command") /\ c.command # ""
    THEN [success |-> TRUE,
          data |-> Spread(Spread([cwd |-> DefaultCwd], c), [type |-> "stdio"])]
    ELSE IF Has(c, "url") /\ c.url \in ValidUrls
    THEN [success |-> TRUE, data |-> Spread(c, [type |-> "sse"])]
    ELSE [success |-> FALSE, data |-> EmptyObject]

\* z.union([stdio, sse]).safeParse: the first shape that matches wins;
\* unknown keys are stripped, the kind is set, cwd gets its default.
safeParseServerConfig(c) ==
    IF StdioShape(c)
    THEN [success |-> TRUE,
          data |-> Spread(Spread([cwd |-> DefaultCwd], [k \in DOMAIN c \cap StdioKeys |-> c[k]]),
                          [type |-> "stdio"])]
    ELSE IF SseShape(c)
    THEN [success |-> TRUE,
          data |-> Spread([k \in DOMAIN c \cap SseKeys |-> c[k]], [type |-> "sse"])]
    ELSE [success |-> FALSE, data |-> EmptyObject]

validateServerConfig(c) == safeParseServerConfig(c)

\* ------------------------------------------------------- config file maps
\* The parsed content of a config file: Record<string, ServerConfig>, with
\* the insertion order of its keys (the order Object.keys returns).
EmptyFile == [keys |-> <<>>, val |-> EmptyObject]

ObjHas(file, n) == n \in DOMAIN file.val

ObjSet(file, n, c) ==
    [keys |-> IF ObjHas(file, n) THEN file.keys ELSE Append(file.keys, n),
     val |-> Spread(file.val, [k \in {n} |-> c])]

ObjDelete(file, n) ==
    [keys |-> SelectSeq(file.keys, LAMBDA k : k # n),
     val |-> Without(file.val, {n})]

\* ----------------------------------------------------------------- state
VARIABLES
    files,          \* on-disk content of the two config files, by source
    dirty,          \* sources whose config file changed and whose chokidar watcher has not fired yet
    connections,    \* ConnectionFactory.connections: the live list
    nextId,         \* identity of the next connection object constructed
    tasks,          \* the asynchronous operations in flight
    ops,            \* number of operations started from outside so far
    errored,        \* the error fields of one server record, and the messages it was given
    detector,       \* a ToolRepetitionDetector, and the calls it was given with its verdicts
    hub,            \* McpHub: refCount, isDisposed, its disposables, whether the host is alive
    watch           \* FileWatcher.watchers: the armed watchers, by server name

vars == <<files, dirty, connections, nextId, tasks, ops, errored, detector, hub, watch>>

\* The hub after its constructor: no client registered, not disposed, its
\* two disposables (the workspace-folder subscription and the
\* config-change listener) not yet disposed, the host alive.  teardowns
\* counts the runs of connectionManager.dispose().
Disposables == {"onDidChangeWorkspaceFolders", "onConfigChange"}

NewHub ==
    [refCount |-> 0, isDisposed |-> FALSE, teardowns |-> 0,
     disposed |-> [d \in Disposables |-> 0], listening |-> TRUE, providerAlive |-> TRUE,
     workspace |-> TRUE]

\* FileWatcher.watchers: server name -> the source its callback restarts,
\* the paths watched, and whether a change awaits delivery
NoWatchers == [n \in {} |-> 0]

ConfigPath(source) == IF source = "global" THEN "mcp_settings.json" ELSE ".roo/mcp.json"

\* FileWatcher.clearWatchers(serverName)
clearWatchers(w, name) == [n \in DOMAIN w \ {name} |-> w[n]]

\* FileWatcher.setupWatchers(serverName, paths, callback)
setupWatchers(w, name, source, paths) ==
    IF paths = {} THEN clearWatchers(w, name)
    ELSE [n \in DOMAIN w \cup {name} |->
            IF n = name THEN [source |-> source, paths |-> paths, pending |-> FALSE] ELSE w[n]]

\* A watched path has changed: every armed watcher of it has a change to deliver.
PathChanged(w, path) ==
    [n \in DOMAIN w |-> IF path \in w[n].paths THEN [w[n] EXCEPT !.pending = TRUE] ELSE w[n]]

\* ------------------------------------------------------- the task machine
\* While a task runs, the shared state and the task's own fields are held
\* in one record m.  m.stack is the task's continuation, m.exc the
\* exception being thrown ("none" when there is none), m.log the calls the
\* task has made so far, m.pass the number of reconciliation passes it began.
NoExc == [msg |-> "none", arg |-> ""]

Error(msg, arg) == [msg |-> msg, arg |-> arg]

Push(m, fs) == [m EXCEPT !.stack = fs \o Tail(@)]

Pop(m) == [m EXCEPT !.stack = Tail(@)]

Throw(m, msg, arg) == [m EXCEPT !.stack = Tail(@), !.exc = Error(msg, arg)]

LogEv(m, e) == [m EXCEPT !.log = Append(@, e)]

WaitOps == {"await_connect", "await_handlerClose", "await_writeFile", "await_call"}

CatchOps ==
    {"catch_entry", "catch_listener", "catch_restart", "catch_initialize", "catch_configWatcher",
     "catch_dispose", "catch_fileWatcher"}

\* ------------------------------------------------------ ConnectionFactory
Handlers == {"stdio", "sse"}

findConnections(conns, name, source) ==
    SelectSeq(conns, LAMBDA c : c.name = name /\ (source = Undefined \/ c.source = source))

\* getAllServers().find(s => s.name === name && s.source === source)
findServer(conns, name, source) ==
    SelectSeq(conns, LAMBDA c : c.name = name /\ c.source = source)

CloseFrame(name, source, allowKeep) ==
    [op |-> "closeConnection", name |-> name, source |-> source, allowKeep |-> allowKeep]

CreateFrame(name, config, source) ==
    [op |-> "createConnection", name |-> name, config |-> config, source |-> source]

\* createConnection up to the handler's connect: the kind is inferred, the
\* handler is looked up, the handler checks its required field and builds
\* the connection object in status "connecting".
createConnection(m, f) ==
    LET config == f.config
        patched == IF Has(config, "type") THEN config
                   ELSE IF Has(config, "command") /\ config.command # ""
                        THEN Spread(config, [type |-> "stdio"])
                   ELSE IF Has(config, "url") /\ config.url # ""
                        THEN Spread(config, [type |-> "sse"])
                   ELSE config
        type == IF Has(patched, "type") THEN patched.type ELSE Undefined
        conn == [id |-> m.nextId, name |-> f.name, source |-> f.source,
                 config |-> JsonStringify(patched), status |-> "connecting",
                 disabled |-> Truthy(patched, "disabled"), closed |-> FALSE, tools |-> <<>>]
        m1 == LogEv(m, [ev |-> "create", name |-> f.name, source |-> f.source, pass |-> m.pass])
    IN  IF type \notin Handlers
        THEN Throw(m1, "Unsupported connection type", type)
        ELSE IF type = "stdio" /\ ~(Has(patched, "command") /\ patched.command # "")
        THEN Throw(m1, "must have a command property", f.name)
        ELSE IF type = "sse" /\ ~(Has(patched, "url") /\ patched.url # "")
        THEN Throw(m1, "must have a url property", f.name)
        ELSE Push([m1 EXCEPT !.nextId = @ + 1],
                  <<[op |-> "await_connect", conn |-> conn],
                    [op |-> "createConnection_finish", name |-> f.name, source |-> f.source]>>)

\* A createConnection that appends without removing the records of the key
createConnection_finish_noFilter(m, f) ==
    Pop([m EXCEPT !.connections = Append(@, m.ret)])

\* The arguments that make createConnection arm a watcher by themselves
BuildArgs == {"build/index.js"}

\* setupFileWatcher: the config file of the record's source is added to
\* the watched paths, then the watchers of the name are replaced; the
\* callback restarts the connection of (name, source).
setupFileWatcher(w, name, source, config) ==
    LET watchPaths == IF Has(config, "watchPaths") THEN SeqToSet(config.watchPaths) ELSE {}
    IN  setupWatchers(w, name, source, watchPaths \cup {ConfigPath(source)})

\* After the handler returned the connection: the file watcher is set up
\* when the config names watched paths or runs build/index.js, any record
\* with the same name and source is removed, then the new one is appended.
createConnection_finish(m, f) ==
    LET config == JsonParse(m.ret.config)
        watched == \/ Has(config, "watchPaths") /\ Len(config.watchPaths) > 0
                   \/ /\ config.type = "stdio"
                      /\ Has(config, "args")
                      /\ \E i \in 1..Len(config.args) : config.args[i] \in BuildArgs
    IN  Pop([m EXCEPT !.watch = IF watched THEN setupFileWatcher(@, f.name, f.source, config) ELSE @,
                      !.connections =
                        Append(SelectSeq(@, LAMBDA c : ~(c.name = f.name /\ c.source = f.source)),
                               m.ret)])

\* closeConnection up to the handler's close of each matching record:
\* before each close the watchers of the name are cleared
closeConnection(m, f) ==
    LET conns == findConnections(m.connections, f.name, f.source)
        m1 == LogEv(m, [ev |-> "close", name |-> f.name, source |-> f.source, pass |-> m.pass])
    IN  Push(m1, [i \in 1..(2 * Len(conns)) |->
                    IF i % 2 = 1 THEN [op |-> "clearWatchers", name |-> f.name]
                    ELSE [op |-> "await_handlerClose", id |-> conns[i \div 2].id]]
                 \o <<[op |-> "closeConnection_finish", name |-> f.name,
                       source |-> f.source, allowKeep |-> f.allowKeep]>>)

closeConnection_clearWatchers(m, f) == Pop([m EXCEPT !.watch = clearWatchers(@, f.name)])

closeConnection_finish(m, f) ==
    IF f.allowKeep THEN Pop(m)
    ELSE Pop([m EXCEPT !.connections =
                SelectSeq(@, LAMBDA c : ~(c.name = f.name /\ (f.source = Undefined \/ c.source = f.source)))])

\* ConnectionFactory.restartConnection: one iteration per matching record
restartConnection(m, f) ==
    LET conns == findConnections(m.connections, f.name, f.source)
    IN  IF Len(conns) = 0 THEN Throw(m, "No connection found for server", f.name)
        ELSE Push(m, [i \in 1..Len(conns) |-> [op |-> "restartOne", conn |-> conns[i]]])

\* The body of the loop: the record object (which may have left the list
\* since the loop began) is set to "connecting", closed with allowKeep and
\* recreated from its stored config.
restartOne(m, f) ==
    LET live == SelectSeq(m.connections, LAMBDA c : c.id = f.conn.id)
        obj == IF Len(live) > 0 THEN live[1] ELSE f.conn
        config == JsonParse(obj.config)
        m1 == [m EXCEPT !.connections =
                 [i \in 1..Len(@) |-> IF @[i].id = obj.id
                                      THEN [@[i] EXCEPT !.status = "connecting"] ELSE @[i]]]
    IN  Push(m1, <<CloseFrame(obj.name, obj.source, TRUE),
                   CreateFrame(obj.name, config, obj.source)>>)

\* The callback of an armed watcher: restartConnection(name, source); the
\* FileWatcher catches what the callback throws.
fileWatcherChange(m, f) ==
    Push(m, <<[op |-> "restartConnection", name |-> f.name, source |-> f.source],
              [op |-> "catch_fileWatcher"]>>)

\* ConnectionFactory.dispose: every record of the list as it is when the
\* loop begins is closed and removed, then all watchers are cleared.
factoryDispose(m, f) ==
    Push(m, [i \in 1..Len(m.connections) |->
                CloseFrame(m.connections[i].name, m.connections[i].source, FALSE)]
            \o <<[op |-> "fileWatcherDispose"]>>)

fileWatcherDispose(m, f) == Pop([m EXCEPT !.watch = NoWatchers])

\* ------------------------------------------------------ ConnectionManager
\* ConnectionManager.dispose
managerDispose(m, f) ==
    Push([m EXCEPT !.hub.teardowns = @ + 1], <<[op |-> "factoryDispose"]>>)

\* A comparison that strips alwaysAllow only
stripNonConnectionFields_keepTimeout(configObj) == Without(configObj, {"alwaysAllow"})

\* const { alwaysAllow, timeout, ...rest } = configObj
stripNonConnectionFields(configObj) == Without(configObj, {"alwaysAllow", "timeout"})

\* fast-deep-equal on two plain objects
deepEqual(x, y) == x = y

\* updateServerConnections up to its first await: the live names of the
\* source are snapshotted, one close is queued for every live name that
\* the snapshot omits, then one loop iteration for every configured name.
updateServerConnections(m, f) ==
    LET currentServers == SelectSeq(m.connections, LAMBDA c : c.source = f.source)
        configServers == f.configs.keys
        deleted == SelectSeq(currentServers, LAMBDA c : c.name \notin SeqToSet(configServers))
        m1 == LogEv([m EXCEPT !.pass = @ + 1],
                    [ev |-> "pass", source |-> f.source, pass |-> m.pass + 1,
                     configs |-> f.configs, live |-> currentServers])
    IN  Push(m1, [i \in 1..Len(deleted) |-> CloseFrame(deleted[i].name, f.source, FALSE)]
                 \o [i \in 1..Len(configServers) |->
                        [op |-> "reconcileEntry", name |-> configServers[i],
                         config |-> f.configs.val[configServers[i]], source |-> f.source]]
                 \o <<[op |-> "passEnd", source |-> f.source]>>)

\* A loop body that closes the live record of an entry that fails validation
reconcileEntry_closeInvalid(m, f) ==
    LET v == validateServerConfig(f.config)
        validatedConfig == v.data
        existing == findServer(m.connections, f.name, f.source)
        catch == [op |-> "catch_entry", name |-> f.name]
    IN  IF ~v.success
        THEN Push(m, <<CloseFrame(f.name, f.source, FALSE), catch>>)
        ELSE IF Len(existing) > 0
        THEN IF ~deepEqual(stripNonConnectionFields(JsonParse(existing[1].config)),
                           stripNonConnectionFields(validatedConfig))
             THEN Push(m, <<CloseFrame(f.name, f.source, FALSE)>>
                          \o (IF ~Truthy(validatedConfig, "disabled")
                              THEN <<CreateFrame(f.name, validatedConfig, f.source)>>
                              ELSE <<>>)
                          \o <<catch>>)
             ELSE Pop([m EXCEPT !.connections =
                        [i \in 1..Len(@) |->
                            IF @[i].id = existing[1].id
                            THEN [@[i] EXCEPT !.config = JsonStringify(validatedConfig)]
                            ELSE @[i]]])
        ELSE IF ~Truthy(validatedConfig, "disabled")
        THEN Push(m, <<CreateFrame(f.name, validatedConfig, f.source), catch>>)
        ELSE Pop(m)

\* A loop body that connects every valid entry, disabled or not
reconcileEntry_connectDisabled(m, f) ==
    LET v == validateServerConfig(f.config)
        existing == findServer(m.connections, f.name, f.source)
        catch == [op |-> "catch_entry", name |-> f.name]
    IN  IF ~v.success
        THEN Push([m EXCEPT !.exc = Error("Invalid MCP config", f.name)], <<catch>>)
        ELSE IF Len(existing) > 0
        THEN IF ~deepEqual(stripNonConnectionFields(JsonParse(existing[1].config)),
                           stripNonConnectionFields(v.data))
             THEN Push(m, <<CloseFrame(f.name, f.source, FALSE),
                            CreateFrame(f.name, v.data, f.source), catch>>)
             ELSE Pop(m)
        ELSE Push(m, <<CreateFrame(f.name, v.data, f.source), catch>>)

\* The body of the second loop, a try block: validate, look the live
\* record up, compare the connection fields, then close and create, or
\* patch the stored config, or create.
reconcileEntry(m, f) ==
    LET v == validateServerConfig(f.config)
        validatedConfig == v.data
        existing == findServer(m.connections, f.name, f.source)
        catch == [op |-> "catch_entry", name |-> f.name]
    IN  IF ~v.success
        THEN Push([m EXCEPT !.exc = Error("Invalid MCP config", f.name)], <<catch>>)
        ELSE IF Len(existing) > 0
        THEN IF ~deepEqual(stripNonConnectionFields(JsonParse(existing[1].config)),
                           stripNonConnectionFields(validatedConfig))
             THEN Push(m, <<CloseFrame(f.name, f.source, FALSE)>>
                          \o (IF ~Truthy(validatedConfig, "disabled")
                              THEN <<CreateFrame(f.name, validatedConfig, f.source)>>
                              ELSE <<>>)
                          \o <<catch>>)
             ELSE Pop([m EXCEPT !.connections =
                        [i \in 1..Len(@) |->
                            IF @[i].id = existing[1].id
                            THEN [@[i] EXCEPT !.config = JsonStringify(validatedConfig)]
                            ELSE @[i]]])
        ELSE IF ~Truthy(validatedConfig, "disabled")
        THEN Push(m, <<CreateFrame(f.name, validatedConfig, f.source), catch>>)
        ELSE Pop(m)

\* The end of a pass
passEnd(m, f) ==
    Pop(LogEv(m, [ev |-> "passEnd", source |-> f.source, pass |-> m.pass,
                  live |-> SelectSeq(m.connections, LAMBDA c : c.source = f.source)]))

\* ConnectionManager.restartConnection: errors are shown, not thrown
managerRestartConnection(m, f) ==
    Push(m, <<[op |-> "restartConnection", name |-> f.name, source |-> f.source],
              [op |-> "catch_restart"]>>)

\* ConnectionManager.initializeConnections: the global source, then the
\* project source, inside one try block
initializeConnections(m, f) ==
    Push(m, <<[op |-> "updateServerConnections", configs |-> m.files["global"], source |-> "global"],
              IF m.hub.workspace
              THEN [op |-> "updateServerConnections", configs |-> m.files["project"], source |-> "project"]
              ELSE [op |-> "getProjectConfigPath"],
              [op |-> "catch_initialize"],
              [op |-> "notifyServersChanged"]>>)

\* getProjectConfigPath without a workspace folder
getProjectConfigPath(m, f) == Throw(m, "no workspace", "")

\* ---------------------------------------------------------- ConfigManager
\* notifyConfigChange with the hub's listener: reconcile, then broadcast,
\* in a try block of the listener
notifyConfigChange(m, f) ==
    IF ~m.hub.listening THEN Pop(m)
    ELSE Push(m, <<[op |-> "updateServerConnections", configs |-> f.configs, source |-> f.source],
                   [op |-> "notifyServersChanged"],
                   [op |-> "catch_listener"]>>)

\* An update that writes the merged entry without validating it
updateServerConfig_noValidate(m, f) ==
    LET config == m.files[f.source]
        serverConfig == Spread(IF ObjHas(config, f.name) THEN config.val[f.name] ELSE EmptyObject,
                               f.updates)
        written == ObjSet(config, f.name, serverConfig)
    IN  Push(m, <<[op |-> "await_writeFile", source |-> f.source, content |-> written],
                  [op |-> "notifyConfigChange", source |-> f.source, configs |-> written]>>)

\* updateServerConfig: read, merge the updates, validate, write, notify
updateServerConfig(m, f) ==
    LET config == m.files[f.source]
        serverConfig == Spread(IF ObjHas(config, f.name) THEN config.val[f.name] ELSE EmptyObject,
                               f.updates)
        written == ObjSet(config, f.name, serverConfig)
    IN  IF ~validateServerConfig(serverConfig).success
        THEN Throw(m, "Failed to update MCP settings", f.name)
        ELSE Push(m, <<[op |-> "await_writeFile", source |-> f.source, content |-> written],
                       [op |-> "notifyConfigChange", source |-> f.source, configs |-> written]>>)

\* deleteServerConfig: read, fail if the server is absent, delete, write, notify
deleteServerConfig(m, f) ==
    LET config == m.files[f.source]
        written == ObjDelete(config, f.name)
    IN  IF ~ObjHas(config, f.name)
        THEN Throw(m, "Failed to delete MCP server", f.name)
        ELSE Push(m, <<[op |-> "await_writeFile", source |-> f.source, content |-> written],
                       [op |-> "notifyConfigChange", source |-> f.source, configs |-> written]>>)

\* A change callback that notifies whatever the entries are
configWatcherChange_alwaysNotify(m, f) ==
    Push(m, <<[op |-> "notifyConfigChange", source |-> f.source, configs |-> m.files[f.source]],
              [op |-> "catch_configWatcher"]>>)

\* The chokidar "change" callback of a config file: the file is read and
\* every entry validated; listeners are notified only if all are valid.
configWatcherChange(m, f) ==
    LET configs == m.files[f.source]
        allValid == \A n \in DOMAIN configs.val : validateServerConfig(configs.val[n]).success
    IN  IF allValid
        THEN Push(m, <<[op |-> "notifyConfigChange", source |-> f.source, configs |-> configs],
                       [op |-> "catch_configWatcher"]>>)
        ELSE Pop(m)


\* mapConfigsToServers: one entry per configured server, "disconnected"
\* and without tools
mapConfigsToServers(configs, source) ==
    [i \in 1..Len(configs.keys) |->
        [name |-> configs.keys[i], source |-> source, status |-> "disconnected", tools |-> <<>>]]

\* getAllServersFromConfig: the servers of the global file, then those of
\* the project file; getProjectConfigPath throws when there is no
\* workspace folder, and the catch returns the empty list
getAllServersFromConfig(m) ==
    IF ~m.hub.workspace THEN <<>>
    ELSE mapConfigsToServers(m.files["global"], "global")
            \o mapConfigsToServers(m.files["project"], "project")

\* alwaysAllowList.includes(tool.name) on every tool
FlagTools(tools, alwaysAllowList) ==
    [i \in 1..Len(tools) |->
        [tools[i] EXCEPT !.alwaysAllow = \E j \in 1..Len(alwaysAllowList) : alwaysAllowList[j] = tools[i].name]]

\* A flag computed from the config stored in the live record
updateToolAlwaysAllowStatus_fromRecord(m, server) ==
    LET connected == findServer(m.connections, server.name, server.source)
        stored == IF Len(connected) > 0 THEN JsonParse(connected[1].config) ELSE EmptyObject
    IN  [server EXCEPT !.tools = FlagTools(@, IF Has(stored, "alwaysAllow") THEN stored.alwaysAllow ELSE <<>>)]

\* updateToolAlwaysAllowStatus: the file of the server's source is read
\* and every tool is flagged by membership in the entry's alwaysAllow; a
\* failure to read (no workspace for the project source) is caught
updateToolAlwaysAllowStatus(m, server) ==
    LET configs == m.files[server.source]
        alwaysAllowList == IF ObjHas(configs, server.name) /\ Has(configs.val[server.name], "alwaysAllow")
                           THEN configs.val[server.name].alwaysAllow ELSE <<>>
    IN  IF server.source = "project" /\ ~m.hub.workspace THEN server
        ELSE [server EXCEPT !.tools = FlagTools(@, alwaysAllowList)]

\* enhanceServersWithConnectionInfo: the tools and the status of the live
\* record of the same name and source, then the always-allow flags
enhanceServersWithConnectionInfo(m, servers) ==
    [i \in 1..Len(servers) |->
        LET connected == findServer(m.connections, servers[i].name, servers[i].source)
        IN  updateToolAlwaysAllowStatus(m,
                IF Len(connected) > 0
                THEN [servers[i] EXCEPT !.tools = connected[1].tools, !.status = connected[1].status]
                ELSE servers[i])]

\* ----------------------------------------------------------------- McpHub
\* notifyServersChanged: the server list is posted to the host, unless
\* the weak reference to the host is empty
notifyServersChanged(m, f) ==
    IF ~m.hub.providerAlive THEN Pop(LogEv(m, [ev |-> "noProvider", pass |-> m.pass]))
    ELSE Pop(LogEv(m, [ev |-> "broadcast", pass |-> m.pass,
                       servers |-> enhanceServersWithConnectionInfo(m, getAllServersFromConfig(m))]))

\* The race of createTimeoutPromise: Promise.race settles with the first
\* of the two promises that settles and ignores every later settlement.
\* race.outcome is what the caller of callTool/readResource observes.
NoCall == [underlying |-> "none", timer |-> "none", outcome |-> "none", timeout |-> 0]

\* A race in which the last settlement wins
createTimeoutPromise_lastWins(race, event) == [race EXCEPT !.outcome = event]

createTimeoutPromise(race, event) ==
    IF race.outcome # "none" THEN race
    ELSE [race EXCEPT !.outcome = event]

\* const timeout = config.timeout || 60
prepareServerOperation(connection) ==
    LET config == JsonParse(connection.config)
    IN  IF Has(config, "timeout") /\ config.timeout # 0 THEN config.timeout ELSE DEFAULT_TIMEOUT

\* A lookup that ignores the source the caller gave
executeServerAction_anySource(m, f) ==
    LET servers == findConnections(m.connections, f.name, Undefined)
    IN  IF Len(servers) = 0 THEN Throw(m, "Server not found", f.name)
        ELSE IF servers[1].disabled THEN Throw(m, "Server is disabled", f.name)
        ELSE Push([LogEv(m, [ev |-> "clientCall", kind |-> f.kind, id |-> servers[1].id,
                             config |-> JsonParse(servers[1].config), timeout |-> DEFAULT_TIMEOUT])
                      EXCEPT !.call = [underlying |-> "pending", timer |-> "armed",
                                       outcome |-> "none", timeout |-> DEFAULT_TIMEOUT]],
                  <<[op |-> "await_call"]>>)

\* executeServerAction with the action of callTool/readResource: the
\* server is looked up in the live list, then the protocol call is issued
\* and raced against the timer.
executeServerAction(m, f) ==
    LET servers == findConnections(m.connections, f.name, f.source)
    IN  IF Len(servers) = 0 THEN Throw(m, "Server not found", f.name)
        ELSE IF servers[1].disabled THEN Throw(m, "Server is disabled", f.name)
        ELSE LET connection == findServer(m.connections, f.name, servers[1].source)[1]
                 timeout == prepareServerOperation(connection)
                 m1 == LogEv(m, [ev |-> "clientCall", kind |-> f.kind, id |-> connection.id,
                                 config |-> JsonParse(connection.config), timeout |-> timeout])
             IN  Push([m1 EXCEPT !.call = [underlying |-> "pending", timer |-> "armed",
                                           outcome |-> "none", timeout |-> timeout]],
                      <<[op |-> "await_call"]>>)

\* updateServerConfigAndNotify: write the config, reconcile with the file
\* as read back, broadcast
updateServerConfigAndNotify(m, f) ==
    Push(m, <<[op |-> "updateServerConfig", source |-> f.source, name |-> f.name, updates |-> f.updates],
              [op |-> "readAndReconcile", source |-> f.source],
              [op |-> "notifyServersChanged"]>>)

readAndReconcile(m, f) ==
    Push(m, <<[op |-> "updateServerConnections", configs |-> m.files[f.source], source |-> f.source]>>)

\* source || (server ? server.source : "global") || "global"
serverSourceOf(conns, name, source) ==
    LET server == findConnections(conns, name, Undefined)
    IN  IF source # Undefined THEN source
        ELSE IF Len(server) > 0 THEN server[1].source
        ELSE "global"

toggleServerDisabled(m, f) ==
    Push(m, <<[op |-> "updateServerConfigAndNotify", name |-> f.name,
               source |-> serverSourceOf(m.connections, f.name, f.source),
               updates |-> [disabled |-> f.disabled]]>>)

\* A range check that refuses the ends of the range
updateServerTimeout_exclusive(m, f) ==
    IF f.timeout <= MIN_TIMEOUT \/ f.timeout >= MAX_TIMEOUT
    THEN Throw(m, "Timeout must be between 0 and 3600 seconds", f.name)
    ELSE Push(m, <<[op |-> "updateServerConfigAndNotify", name |-> f.name,
                    source |-> serverSourceOf(m.connections, f.name, f.source),
                    updates |-> [timeout |-> f.timeout]]>>)

updateServerTimeout(m, f) ==
    IF f.timeout < MIN_TIMEOUT \/ f.timeout > MAX_TIMEOUT
    THEN Throw(m, "Timeout must be between 0 and 3600 seconds", f.name)
    ELSE Push(m, <<[op |-> "updateServerConfigAndNotify", name |-> f.name,
                    source |-> serverSourceOf(m.connections, f.name, f.source),
                    updates |-> [timeout |-> f.timeout]]>>)

\* deleteServer: the entry is deleted from the file of the source, then the
\* hub reconciles that source against an empty snapshot and broadcasts
deleteServer(m, f) ==
    LET serverSource == IF f.source # Undefined THEN f.source ELSE "global"
    IN  Push(m, <<[op |-> "deleteServerConfig", source |-> serverSource, name |-> f.name],
                  [op |-> "updateServerConnections", configs |-> EmptyFile, source |-> serverSource],
                  [op |-> "notifyServersChanged"]>>)

\* A restart that returns without the broadcast
hubRestartConnection_noNotify(m, f) ==
    Push(m, <<[op |-> "managerRestartConnection", name |-> f.name, source |-> f.source]>>)

hubRestartConnection(m, f) ==
    Push(m, <<[op |-> "managerRestartConnection", name |-> f.name, source |-> f.source],
              [op |-> "notifyServersChanged"]>>)

\* alwaysAllow.indexOf(toolName), 0 for -1
IndexOf(list, tool) ==
    IF \E i \in 1..Len(list) : list[i] = tool
    THEN CHOOSE i \in 1..Len(list) : list[i] = tool /\ \A j \in 1..(i - 1) : list[j] # tool
    ELSE 0

\* alwaysAllow.splice(index, 1)
Splice(list, index) == [i \in 1..(Len(list) - 1) |-> IF i < index THEN list[i] ELSE list[i + 1]]

\* The list after the if/else of toggleToolAlwaysAllow
alwaysAllowAfter(list, tool, allow) ==
    LET index == IndexOf(list, tool)
    IN  IF allow /\ index = 0 THEN Append(list, tool)
        ELSE IF ~allow /\ index # 0 THEN Splice(list, index)
        ELSE list

\* toggleToolAlwaysAllow: the entry is read from the file of the source
\* ({} when absent), the tool is pushed when allowed and absent, its first
\* occurrence is removed when not allowed and present, and the whole
\* entry with the new list is written as the update.
toggleToolAlwaysAllow(m, f) ==
    LET configs == m.files[f.source]
        serverConfig == IF ObjHas(configs, f.name) THEN configs.val[f.name] ELSE EmptyObject
        list == IF Has(serverConfig, "alwaysAllow") THEN serverConfig.alwaysAllow ELSE <<>>
        alwaysAllow == alwaysAllowAfter(list, f.tool, f.allow)
    IN  Push(m, <<[op |-> "updateServerConfigAndNotify", name |-> f.name, source |-> f.source,
                   updates |-> Spread(serverConfig, [alwaysAllow |-> alwaysAllow])]>>)

\* A dispose without the flag that prevents a second disposal
dispose_noGuard(m, f) ==
    IF m.hub.refCount > 0 THEN Pop(m)
    ELSE Push([m EXCEPT !.hub.isDisposed = TRUE],
              <<[op |-> "managerDispose"], [op |-> "catch_dispose"], [op |-> "disposeDisposables"]>>)

\* dispose: nothing when already disposed or while a client is registered;
\* otherwise the flag is set, the connection manager is disposed inside a
\* try block, then every disposable is disposed.
dispose(m, f) ==
    IF m.hub.isDisposed THEN Pop(m)
    ELSE IF m.hub.refCount > 0 THEN Pop(m)
    ELSE Push([m EXCEPT !.hub.isDisposed = TRUE],
              <<[op |-> "managerDispose"], [op |-> "catch_dispose"], [op |-> "disposeDisposables"]>>)

\* The loop over this.disposables; the disposable of onConfigChange
\* removes the hub's listener from the config manager.
disposeDisposables(m, f) ==
    Pop([m EXCEPT !.hub.disposed = [d \in Disposables |-> @[d] + 1], !.hub.listening = FALSE])

\* unregisterClient: the count is decremented; at zero or below the hub is disposed
unregisterClient(m, f) ==
    LET m1 == [m EXCEPT !.hub.refCount = @ - 1]
    IN  IF m1.hub.refCount <= 0 THEN Push(m1, <<[op |-> "dispose"]>>) ELSE Pop(m1)

\* ------------------------------------------------------------ BaseHandler
\* An error message is followed by its length and, when it is given to
\* appendErrorMessage, by its arrival number n (0 otherwise).
\* `${error.substring(0, MAX_ERROR_LENGTH)}...(error message truncated)`
Truncate(error) ==
    IF error.length > MAX_ERROR_LENGTH
    THEN [error EXCEPT !.length = MAX_ERROR_LENGTH + TruncationMarkerLength]
    ELSE error

\* errorHistory.slice(-100)
SliceLast(h, k) == IF Len(h) > k THEN SubSeq(h, Len(h) - k + 1, Len(h)) ELSE h

\* A history that keeps its first entries and drops the newest
appendErrorMessage_keepOldest(server, error) ==
    LET truncatedError == Truncate(error)
        pushed == Append(server.errorHistory, truncatedError)
    IN  [server EXCEPT !.errorHistory = IF Len(pushed) > MaxErrorHistory
                                        THEN SubSeq(pushed, 1, MaxErrorHistory) ELSE pushed,
                       !.error = truncatedError]

\* appendErrorMessage: truncate, push to the history, keep the last 100,
\* set the current error
appendErrorMessage(server, error) ==
    LET truncatedError == Truncate(error)
        pushed == Append(server.errorHistory, truncatedError)
    IN  [server EXCEPT !.errorHistory = IF Len(pushed) > MaxErrorHistory
                                        THEN SliceLast(pushed, MaxErrorHistory) ELSE pushed,
                       !.error = truncatedError]

\* transport.onerror of both handlers: connection.server.error = error.message
onTransportError(server, error) == [server EXCEPT !.error = error]

\* The catch of SseHandler.createConnection: connection.server.error = error.message
sseConnectFailed(server, error) == [server EXCEPT !.error = error]

\* transport.onclose(code) of StdioHandler: `Process exited with code ${code}`
DecimalDigits(code) == IF code < 10 THEN 1 ELSE IF code < 100 THEN 2 ELSE 3

onTransportClose(server, code) ==
    IF code # 0
    THEN [server EXCEPT !.error = [n |-> 0, length |-> ExitMessagePrefixLength + DecimalDigits(code)]]
    ELSE server

\* ------------------------------------------------------------- execution
Exec(m, f) ==
    CASE f.op = "createConnection" -> createConnection(m, f)
      [] f.op = "createConnection_finish" -> createConnection_finish(m, f)
      [] f.op = "closeConnection" -> closeConnection(m, f)
      [] f.op = "closeConnection_finish" -> closeConnection_finish(m, f)
      [] f.op = "restartConnection" -> restartConnection(m, f)
      [] f.op = "restartOne" -> restartOne(m, f)
      [] f.op = "updateServerConnections" -> updateServerConnections(m, f)
      [] f.op = "reconcileEntry" -> reconcileEntry(m, f)
      [] f.op = "passEnd" -> passEnd(m, f)
      [] f.op = "managerRestartConnection" -> managerRestartConnection(m, f)
      [] f.op = "initializeConnections" -> initializeConnections(m, f)
      [] f.op = "getProjectConfigPath" -> getProjectConfigPath(m, f)
      [] f.op = "notifyConfigChange" -> notifyConfigChange(m, f)
      [] f.op = "updateServerConfig" -> updateServerConfig(m, f)
      [] f.op = "deleteServerConfig" -> deleteServerConfig(m, f)
      [] f.op = "configWatcherChange" -> configWatcherChange(m, f)
      [] f.op = "notifyServersChanged" -> notifyServersChanged(m, f)
      [] f.op = "executeServerAction" -> executeServerAction(m, f)
      [] f.op = "updateServerConfigAndNotify" -> updateServerConfigAndNotify(m, f)
      [] f.op = "readAndReconcile" -> readAndReconcile(m, f)
      [] f.op = "toggleServerDisabled" -> toggleServerDisabled(m, f)
      [] f.op = "updateServerTimeout" -> updateServerTimeout(m, f)
      [] f.op = "deleteServer" -> deleteServer(m, f)
      [] f.op = "hubRestartConnection" -> hubRestartConnection(m, f)
      [] f.op = "clearWatchers" -> closeConnection_clearWatchers(m, f)
      [] f.op = "fileWatcherChange" -> fileWatcherChange(m, f)
      [] f.op = "factoryDispose" -> factoryDispose(m, f)
      [] f.op = "fileWatcherDispose" -> fileWatcherDispose(m, f)
      [] f.op = "managerDispose" -> managerDispose(m, f)
      [] f.op = "toggleToolAlwaysAllow" -> toggleToolAlwaysAllow(m, f)
      [] f.op = "dispose" -> dispose(m, f)
      [] f.op = "disposeDisposables" -> disposeDisposables(m, f)
      [] f.op = "unregisterClient" -> unregisterClient(m, f)

\* Run the task up to its next wait, or to its end.  An exception unwinds
\* the stack to the nearest catch frame, which swallows it.
RECURSIVE Run(_)
RunFrom(m) ==
    IF m.stack = <<>> THEN m
    ELSE LET f == Head(m.stack)
         IN  IF m.exc.msg # "none"
             THEN IF f.op \in CatchOps
                  THEN Run(Pop(LogEv([m EXCEPT !.exc = NoExc],
                                     [ev |-> "caught", by |-> f.op, msg |-> m.exc.msg])))
                  ELSE Run(Pop(m))
             ELSE IF f.op \in WaitOps THEN m
             ELSE IF f.op \in CatchOps THEN Run(Pop(m))
             ELSE Run(Exec(m, f))

\* The state a task is run from is evaluated once.
Run(m0) == CHOOSE r \in {RunFrom(m) : m \in {m0}} : TRUE


\* ----------------------------------------------------------------- tasks
NewTask(op, args, frame) ==
    [op |-> op, args |-> args, stack |-> <<frame>>, exc |-> NoExc, log |-> <<>>,
     pass |-> 0, ret |-> EmptyObject, call |-> NoCall,
     pre |-> [files |-> files, connections |-> connections, nextId |-> nextId, hub |-> hub,
              watch |-> watch]]

MOf(t) ==
    [files |-> files, dirty |-> dirty, connections |-> connections, nextId |-> nextId,
     hub |-> hub, watch |-> watch,
     stack |-> t.stack, exc |-> t.exc, log |-> t.log, pass |-> t.pass, ret |-> t.ret,
     call |-> t.call]

TaskOf(t, m) ==
    [t EXCEPT !.stack = m.stack, !.exc = m.exc, !.log = m.log, !.pass = m.pass,
              !.ret = m.ret, !.call = m.call]

Done(t) == t.stack = <<>>

Waiting(t, op) == t.stack # <<>> /\ Head(t.stack).op = op

\* The effect of running task t from machine state m0
Commit(m) ==
    /\ files' = m.files
    /\ dirty' = m.dirty
    /\ connections' = m.connections
    /\ nextId' = m.nextId
    /\ hub' = m.hub
    /\ watch' = m.watch
    /\ UNCHANGED <<errored, detector, detector>>

Resume(i, m0) ==
    LET m == Run(m0)
    IN  /\ Commit(m)
        /\ tasks' = [tasks EXCEPT ![i] = TaskOf(tasks[i], m)]
        /\ UNCHANGED ops

Start(t) ==
    LET m == Run(MOf(t))
    IN  /\ Len(tasks) < MaxTasks
        /\ Commit(m)
        /\ tasks' = Append(tasks, TaskOf(t, m))

StartOp(t) ==
    /\ ops < MaxOps
    /\ ops' = ops + 1
    /\ Start(t)

\* ------------------------------------------------ operations of the hub
ToggleServerDisabled(name, disabled, source) ==
    StartOp(NewTask("toggleServerDisabled", [name |-> name, disabled |-> disabled, source |-> source],
                    [op |-> "toggleServerDisabled", name |-> name, disabled |-> disabled,
                     source |-> source]))

UpdateServerTimeout(name, timeout, source) ==
    StartOp(NewTask("updateServerTimeout", [name |-> name, timeout |-> timeout, source |-> source],
                    [op |-> "updateServerTimeout", name |-> name, timeout |-> timeout,
                     source |-> source]))

DeleteServer(name, source) ==
    StartOp(NewTask("deleteServer", [name |-> name, source |-> source],
                    [op |-> "deleteServer", name |-> name, source |-> source]))

RestartConnection(name, source) ==
    StartOp(NewTask("restartConnection", [name |-> name, source |-> source],
                    [op |-> "hubRestartConnection", name |-> name, source |-> source]))

CallTool(name, source) ==
    StartOp(NewTask("callTool", [name |-> name, source |-> source],
                    [op |-> "executeServerAction", kind |-> "callTool", name |-> name,
                     source |-> source]))

ReadResource(name, source) ==
    StartOp(NewTask("readResource", [name |-> name, source |-> source],
                    [op |-> "executeServerAction", kind |-> "readResource", name |-> name,
                     source |-> source]))

\* ------------------------------------------------------ the environment
\* The user edits a config file: an entry is written or removed.
FileEdit(source, name, config) ==
    /\ ops < MaxOps
    /\ ops' = ops + 1
    /\ files' = [files EXCEPT ![source] = ObjSet(@, name, config)]
    /\ dirty' = [dirty EXCEPT ![source] = TRUE]
    /\ watch' = PathChanged(watch, ConfigPath(source))
    /\ UNCHANGED <<connections, nextId, tasks, errored, detector, hub>>

FileRemove(source, name) ==
    /\ ops < MaxOps
    /\ ObjHas(files[source], name)
    /\ ops' = ops + 1
    /\ files' = [files EXCEPT ![source] = ObjDelete(@, name)]
    /\ dirty' = [dirty EXCEPT ![source] = TRUE]
    /\ watch' = PathChanged(watch, ConfigPath(source))
    /\ UNCHANGED <<connections, nextId, tasks, errored, detector, hub>>

ToggleToolAlwaysAllow(name, source, tool, allow) ==
    StartOp(NewTask("toggleToolAlwaysAllow",
                    [name |-> name, source |-> source, tool |-> tool, allow |-> allow],
                    [op |-> "toggleToolAlwaysAllow", name |-> name, source |-> source,
                     tool |-> tool, allow |-> allow]))

\* registerClient is synchronous
RegisterClient ==
    /\ ops < MaxClientCalls
    /\ ops' = ops + 1
    /\ hub' = [hub EXCEPT !.refCount = @ + 1]
    /\ UNCHANGED <<files, dirty, connections, nextId, tasks, errored, detector, watch>>

UnregisterClient ==
    /\ ops < MaxClientCalls
    /\ ops' = ops + 1
    /\ Start(NewTask("unregisterClient", EmptyObject, [op |-> "unregisterClient"]))

Dispose ==
    /\ ops < MaxClientCalls
    /\ ops' = ops + 1
    /\ Start(NewTask("dispose", EmptyObject, [op |-> "dispose"]))

\* The host object is collected: the weak reference of the hub is empty from then on.
ProviderCollected ==
    /\ hub.providerAlive
    /\ hub' = [hub EXCEPT !.providerAlive = FALSE]
    /\ UNCHANGED <<files, dirty, connections, nextId, tasks, ops, errored, detector, watch>>

\* An armed watcher delivers the change of one of its paths.
FileWatcherFires(name) ==
    /\ name \in DOMAIN watch
    /\ watch[name].pending
    /\ Len(tasks) < MaxTasks
    /\ LET t == NewTask("fileWatcherChange", [name |-> name, source |-> watch[name].source],
                        [op |-> "fileWatcherChange", name |-> name, source |-> watch[name].source])
           m == Run([MOf(t) EXCEPT !.watch[name].pending = FALSE])
       IN  /\ Commit(m)
           /\ tasks' = Append(tasks, TaskOf(t, m))
    /\ UNCHANGED ops

\* The chokidar watcher of a config file fires for a change of the file.
ConfigWatcherFires(source) ==
    /\ dirty[source]
    /\ Len(tasks) < MaxTasks
    /\ LET t == NewTask("configWatcherChange", [source |-> source],
                        [op |-> "configWatcherChange", source |-> source])
           m == Run([MOf(t) EXCEPT !.dirty[source] = FALSE])
       IN  /\ Commit(m)
           /\ tasks' = Append(tasks, TaskOf(t, m))
    /\ UNCHANGED ops

\* The tools every server offers
ServerTools == <<"t", "u">>

\* fetchToolsList of a connected client: every tool with alwaysAllow false;
\* a failed connect leaves the record without tools
fetchToolsList(outcome) ==
    IF outcome = "connected"
    THEN [i \in 1..Len(ServerTools) |-> [name |-> ServerTools[i], alwaysAllow |-> FALSE]]
    ELSE <<>>

\* The handler's connect settles: the transport connects, or the connect
\* fails and the record becomes "disconnected", or (subprocess only)
\* starting the transport rejects, which createConnection does not catch.
HandlerConnectSettles(i, outcome) ==
    /\ Waiting(tasks[i], "await_connect")
    /\ LET t == tasks[i]
           conn == Head(t.stack).conn
           m0 == MOf(t)
       IN  /\ outcome = "throws" => JsonParse(conn.config).type = "stdio"
           /\ Resume(i, IF outcome = "throws"
                        THEN Throw(m0, "transport start failed", conn.name)
                        ELSE Pop([m0 EXCEPT !.ret = [conn EXCEPT !.status = outcome,
                                                                 !.tools = fetchToolsList(outcome)]]))

\* transport.onclose, which the close of the transport calls: the record
\* object becomes "disconnected"
onTransportClosed(conns, id) ==
    [k \in 1..Len(conns) |->
        IF conns[k].id = id THEN [conns[k] EXCEPT !.status = "disconnected", !.closed = TRUE]
        ELSE conns[k]]

\* The handler's close of one record settles (its failures are logged):
\* the client and the transport have been closed.
HandlerCloseSettles(i) ==
    /\ Waiting(tasks[i], "await_handlerClose")
    /\ LET m0 == MOf(tasks[i])
       IN  Resume(i, Pop([m0 EXCEPT !.connections = onTransportClosed(@, Head(m0.stack).id)]))

\* fs.writeFile of a config file completes.
WriteFileCompletes(i) ==
    /\ Waiting(tasks[i], "await_writeFile")
    /\ LET f == Head(tasks[i].stack)
           m0 == MOf(tasks[i])
       IN  Resume(i, Pop(LogEv([m0 EXCEPT !.files[f.source] = f.content, !.dirty[f.source] = TRUE,
                                           !.watch = PathChanged(@, ConfigPath(f.source))],
                               [ev |-> "writeFile", source |-> f.source])))

\* The protocol call of callTool/readResource settles, before or after
\* the timer.
ProtocolCallSettles(i, ok) ==
    /\ tasks[i].call.underlying = "pending"
    /\ LET t == tasks[i]
           call == createTimeoutPromise([t.call EXCEPT !.underlying = IF ok THEN "resolved" ELSE "rejected"],
                                        IF ok THEN "result" ELSE "error")
           m0 == [MOf(t) EXCEPT !.call = call]
       IN  IF Waiting(t, "await_call")
           THEN Resume(i, IF call.outcome = "result" THEN Pop(m0)
                          ELSE Throw(m0, "protocol call failed", ""))
           ELSE /\ tasks' = [tasks EXCEPT ![i].call = call]
                /\ UNCHANGED <<files, dirty, connections, nextId, ops, errored, detector, hub, watch>>

\* The timer of createTimeoutPromise fires, before or after the call settled.
TimerFires(i) ==
    /\ tasks[i].call.timer = "armed"
    /\ LET t == tasks[i]
           call == createTimeoutPromise([t.call EXCEPT !.timer = "fired"], "timeout")
           m0 == [MOf(t) EXCEPT !.call = call]
       IN  IF Waiting(t, "await_call")
           THEN Resume(i, Throw(m0, "timed out", ""))
           ELSE /\ tasks' = [tasks EXCEPT ![i].call = call]
                /\ UNCHANGED <<files, dirty, connections, nextId, ops, errored, detector, hub, watch>>

\* The operation has returned to its caller.
TaskReturns(i) ==
    /\ Done(tasks[i])
    /\ tasks' = [j \in 1..(Len(tasks) - 1) |-> IF j < i THEN tasks[j] ELSE tasks[j + 1]]
    /\ UNCHANGED <<files, dirty, connections, nextId, ops, errored, detector, hub, watch>>

\* The record of a server of the given kind as its handler builds it, with
\* no error yet; lens are the lengths of the messages it will be given, in
\* rotation.
NoError == [n |-> 0, length |-> 0]

NoErrors(kind, lens) ==
    [kind |-> kind, error |-> NoError, errorHistory |-> <<>>, count |-> 0, lens |-> lens]

NextError == [n |-> errored.count + 1, length |-> errored.lens[(errored.count % Len(errored.lens)) + 1]]

Given(server) == [server EXCEPT !.count = @ + 1]

\* appendErrorMessage is applied to the record with the next message.
AppendErrorMessage ==
    /\ errored.count < MaxAppends
    /\ errored.kind = "stdio"
    /\ errored' = Given(appendErrorMessage(errored, NextError))
    /\ UNCHANGED <<files, dirty, connections, nextId, tasks, ops, detector, hub, watch>>

\* The connect of an SSE server fails with a message of the given length.
SseConnectFails(length) ==
    /\ errored.kind = "sse"
    /\ errored' = sseConnectFailed(errored, [n |-> 0, length |-> length])
    /\ UNCHANGED <<files, dirty, connections, nextId, tasks, ops, detector, hub, watch>>

\* The transport reports an error with a message of the given length.
TransportError(length) ==
    /\ errored' = onTransportError(errored, [n |-> 0, length |-> length])
    /\ UNCHANGED <<files, dirty, connections, nextId, tasks, ops, detector, hub, watch>>

\* The subprocess exits with a code.
TransportClose(code) ==
    /\ errored.kind = "stdio"
    /\ errored' = onTransportClose(errored, code)
    /\ UNCHANGED <<files, dirty, connections, nextId, tasks, ops, detector, hub, watch>>

\* ------------------------------------------- ToolRepetitionDetector
HISTORY_RETENTION_ON_RESET == 5

MAX_HISTORY_LENGTH == 1000

MinOf(a, b) == IF a < b THEN a ELSE b

MaxOf(a, b) == IF a > b THEN a ELSE b

\* The constructor: the limits are clamped, nothing has been seen. The
\* previous call is kept as a list, empty for null; calls and verdicts
\* record what check was given and what it answered.
NewDetector(consecutiveLimit, historyLength, patternLimit) ==
    [consecutiveIdenticalToolCallLimit |-> MaxOf(0, consecutiveLimit),
     historyMaxLength |-> MaxOf(1, MinOf(historyLength, MAX_HISTORY_LENGTH)),
     patternRepetitionLimit |-> MaxOf(0, patternLimit),
     previousToolCallJson |-> <<>>,
     consecutiveIdenticalToolCallCount |-> 0,
     toolCallHistory |-> <<>>,
     calls |-> <<>>,
     verdicts |-> <<>>]

\* The parameter keys in alphabetical order
SortedKeys == <<"line", "path">>

\* serializeToolUse: the name and the parameters with their keys sorted;
\* params is the list of key/value pairs in insertion order
serializeToolUse(toolUse) ==
    [name |-> toolUse.name,
     parameters |-> SelectSeq([i \in 1..Len(SortedKeys) |->
                                    IF \E j \in 1..Len(toolUse.params) : toolUse.params[j][1] = SortedKeys[i]
                                    THEN LET j == CHOOSE j \in 1..Len(toolUse.params) :
                                                        toolUse.params[j][1] = SortedKeys[i]
                                         IN  <<SortedKeys[i], toolUse.params[j][2]>>
                                    ELSE <<>>],
                              LAMBDA e : e # <<>>)]

\* updateHistory: push, then shift when longer than the maximum
updateHistory(d, toolCallJson) ==
    LET pushed == Append(d.toolCallHistory, toolCallJson)
    IN  [d EXCEPT !.toolCallHistory = IF Len(pushed) > d.historyMaxLength THEN Tail(pushed) ELSE pushed]

\* The inner for loop of hasRepeatingPattern at a (0-based) position
SegmentMatches(history, patternLength, position) ==
    \A i \in 0..(patternLength - 1) :
        /\ position - i >= 0
        /\ history[position - i + 1] = history[Len(history) - i]

\* The while loop of hasRepeatingPattern
RECURSIVE ScanPattern(_, _, _, _, _)
ScanPattern(history, patternLength, limit, position, repetitionCount) ==
    IF position < 0 THEN FALSE
    ELSE IF SegmentMatches(history, patternLength, position)
         THEN IF repetitionCount + 1 > limit THEN TRUE
              ELSE ScanPattern(history, patternLength, limit, position - patternLength, repetitionCount + 1)
         ELSE FALSE

hasRepeatingPattern(history, patternLength, limit) ==
    IF patternLength <= 0 \/ Len(history) < patternLength * 2 THEN FALSE
    ELSE ScanPattern(history, patternLength, limit, Len(history) - patternLength - 1, 1)

detectPatternRepetition(d) ==
    LET history == d.toolCallHistory
    IN  IF Len(history) < 4 THEN FALSE
        ELSE \E patternLength \in 2..(Len(history) \div 2) :
                hasRepeatingPattern(history, patternLength, d.patternRepetitionLimit)

\* history.slice(-n)
LastOf(history, n) == SubSeq(history, MaxOf(1, Len(history) - n + 1), Len(history))

resetState(d) ==
    [d EXCEPT !.consecutiveIdenticalToolCallCount = 0,
              !.previousToolCallJson = <<>>,
              !.toolCallHistory = LastOf(@, HISTORY_RETENTION_ON_RESET)]

Answered(d, json, allowExecution) ==
    [d EXCEPT !.calls = Append(@, json), !.verdicts = Append(@, allowExecution)]

\* check: everything is allowed when the limit is 0; otherwise the call
\* is recorded and counted, and it is refused, with the state reset, when
\* the count reaches the limit or a pattern repeats
check(d, currentToolCallBlock) ==
    LET currentToolCallJson == serializeToolUse(currentToolCallBlock)
        recorded == updateHistory(d, currentToolCallJson)
        counted == IF recorded.previousToolCallJson = <<currentToolCallJson>>
                   THEN [recorded EXCEPT !.consecutiveIdenticalToolCallCount = @ + 1]
                   ELSE [recorded EXCEPT !.consecutiveIdenticalToolCallCount = 1,
                                         !.previousToolCallJson = <<currentToolCallJson>>]
        patternRepetition == detectPatternRepetition(counted)
    IN  IF d.consecutiveIdenticalToolCallLimit <= 0 THEN Answered(d, currentToolCallJson, TRUE)
        ELSE IF counted.consecutiveIdenticalToolCallCount >= counted.consecutiveIdenticalToolCallLimit
                    \/ patternRepetition
             THEN Answered(resetState(counted), currentToolCallJson, FALSE)
             ELSE Answered(counted, currentToolCallJson, TRUE)

\* The task checks a tool call.
Check(toolUse) ==
    /\ Len(detector.verdicts) < MaxChecks
    /\ detector' = check(detector, toolUse)
    /\ UNCHANGED <<files, dirty, connections, nextId, tasks, ops, errored, hub, watch>>

\* ---------------------------------------------------------- inputs
EditConfigs ==
    {[command |-> "c1"], [command |-> "c2"], [command |-> "c1", args |-> <<"x">>],
     [url |-> "u1"], [command |-> "c1", timeout |-> 30],
     [command |-> "c1", alwaysAllow |-> <<"t">>], [command |-> "c1", disabled |-> TRUE]}

Timeouts == {-1, 0, 3600, 3601}

InitFiles ==
    {[global |-> g, project |-> p] :
        g \in {EmptyFile,
               [keys |-> <<"a">>, val |-> [a |-> [command |-> "c1"]]],
               [keys |-> <<"a">>, val |-> [a |-> [command |-> "c1", disabled |-> TRUE]]],
               [keys |-> <<"a", "b">>, val |-> [a |-> [command |-> "c1"], b |-> [url |-> "u1"]]]},
        p \in {EmptyFile, [keys |-> <<"a">>, val |-> [a |-> [url |-> "u2"]]]}}

\* ------------------------------------------------------- specification
\* The state after the constructor of McpHub: the connection list is
\* empty and initializeConnections has run up to its first wait.
InitFromHub(fileSets, newHub) ==
    \E fs \in fileSets :
        LET t == [op |-> "initializeConnections", args |-> EmptyObject,
                  stack |-> <<[op |-> "initializeConnections"]>>, exc |-> NoExc, log |-> <<>>,
                  pass |-> 0, ret |-> EmptyObject, call |-> NoCall,
                  pre |-> [files |-> fs, connections |-> <<>>, nextId |-> 1, hub |-> newHub,
                           watch |-> NoWatchers]]
            m == Run([files |-> fs, dirty |-> [s \in Sources |-> FALSE], connections |-> <<>>,
                      hub |-> newHub, watch |-> NoWatchers,
                      nextId |-> 1, stack |-> t.stack, exc |-> t.exc, log |-> t.log,
                      pass |-> t.pass, ret |-> t.ret, call |-> t.call])
        IN  /\ files = m.files
            /\ dirty = m.dirty
            /\ connections = m.connections
            /\ nextId = m.nextId
            /\ tasks = <<TaskOf(t, m)>>
            /\ ops = 0
            /\ errored = NoErrors("stdio", <<1>>)
            /\ detector = NewDetector(3, 20, 2)
            /\ hub = m.hub
            /\ watch = m.watch

InitFrom(fileSets) == InitFromHub(fileSets, NewHub)

Init == InitFrom(InitFiles)

Idle == tasks = <<>>

\* A task in flight goes on.
Progress ==
    \/ \E i \in 1..Len(tasks), o \in {"connected", "disconnected", "throws"} : HandlerConnectSettles(i, o)
    \/ \E i \in 1..Len(tasks) : HandlerCloseSettles(i)
    \/ \E i \in 1..Len(tasks) : WriteFileCompletes(i)
    \/ \E i \in 1..Len(tasks) : TaskReturns(i)

\* Configuration changes, one operation at a time: nothing begins while a
\* task is in flight.
Next ==
    \/ Idle /\ \E n \in Names, d \in BOOLEAN, s \in OptSources : ToggleServerDisabled(n, d, s)
    \/ Idle /\ \E n \in Names, t \in Timeouts, s \in OptSources : UpdateServerTimeout(n, t, s)
    \/ Idle /\ \E n \in Names, s \in OptSources : DeleteServer(n, s)
    \/ Idle /\ \E s \in Sources, n \in Names, c \in EditConfigs : FileEdit(s, n, c)
    \/ Idle /\ \E s \in Sources, n \in Names : FileRemove(s, n)
    \/ Idle /\ \E s \in Sources : ConfigWatcherFires(s)
    \/ Progress

Spec == Init /\ [][Next]_vars

\* Calls of tools and resources, one operation at a time, on the states
\* that toggling and editing the configuration reach.
NextCall ==
    \/ Idle /\ \E n \in Names, d \in BOOLEAN : ToggleServerDisabled(n, d, Undefined)
    \/ Idle /\ \E t \in Timeouts : UpdateServerTimeout("a", t, Undefined)
    \/ Idle /\ \E n \in Names, s \in OptSources : CallTool(n, s)
    \/ Idle /\ \E n \in Names, s \in OptSources : ReadResource(n, s)
    \/ Idle /\ \E s \in Sources : ConfigWatcherFires(s)
    \/ \E i \in 1..Len(tasks), ok \in BOOLEAN : ProtocolCallSettles(i, ok)
    \/ \E i \in 1..Len(tasks) : TimerFires(i)
    \/ Progress

SpecCall == Init /\ [][NextCall]_vars

\* Operations on one server that overlap in time, with each other and
\* with the initialization: up to MaxTasks tasks in flight.
InitConcFiles ==
    {[global |-> g, project |-> EmptyFile] :
        g \in {[keys |-> <<"a">>, val |-> [a |-> [command |-> "c1", disabled |-> TRUE]]],
               [keys |-> <<"a", "b">>, val |-> [a |-> [command |-> "c1"], b |-> [url |-> "u1"]]]}}

InitConc == InitFrom(InitConcFiles)

NextConc ==
    \/ RestartConnection("a", Undefined)
    \/ DeleteServer("a", Undefined)
    \/ \E d \in BOOLEAN : ToggleServerDisabled("a", d, Undefined)
    \/ Progress

SpecConc == InitConc /\ [][NextConc]_vars

\* The error fields of one server record, for messages of every length
\* around the limit.
MessageLengths == {1, 999, 1000, 1001, 2000}

ExitCodes == {0, 1, 137}

InitErr ==
    /\ files = [s \in Sources |-> EmptyFile]
    /\ dirty = [s \in Sources |-> FALSE]
    /\ connections = <<>>
    /\ nextId = 1
    /\ tasks = <<>>
    /\ ops = 0
    /\ hub = NewHub
    /\ watch = NoWatchers
    /\ detector = NewDetector(3, 20, 2)
    /\ \E kind \in Handlers, l1 \in MessageLengths, l2 \in MessageLengths :
            errored = NoErrors(kind, <<l1, l2>>)

NextErr ==
    \/ AppendErrorMessage
    \/ \E length \in MessageLengths : SseConnectFails(length)
    \/ \E length \in MessageLengths : TransportError(length)
    \/ \E code \in ExitCodes : TransportClose(code)

SpecErr == InitErr /\ [][NextErr]_vars

\* Clients register and unregister and the hub is disposed, at any
\* moment, while initialization and earlier disposals are in flight.
InitHubFiles ==
    {[global |-> [keys |-> <<"a">>, val |-> [a |-> [command |-> "c1"]]], project |-> EmptyFile],
     [global |-> [keys |-> <<"a", "b">>, val |-> [a |-> [command |-> "c1"], b |-> [url |-> "u1"]]],
      project |-> [keys |-> <<"a">>, val |-> [a |-> [url |-> "u2"]]]]}

InitHub == InitFrom(InitHubFiles)

NextHub ==
    \/ RegisterClient
    \/ UnregisterClient
    \/ Dispose
    \/ \E i \in 1..Len(tasks), o \in {"connected", "disconnected", "throws"} : HandlerConnectSettles(i, o)
    \/ \E i \in 1..Len(tasks) : HandlerCloseSettles(i)
    \/ \E i \in 1..Len(tasks) : TaskReturns(i)

SpecHub == InitHub /\ [][NextHub]_vars

\* The mutating operations of the hub, one at a time, on servers with
\* always-allow lists and watched paths; the armed watchers deliver the
\* changes of their paths at any moment, and the host may be collected.
Tools == {"t"}

InitOpsFiles ==
    {[global |-> g, project |-> p] :
        g \in {[keys |-> <<"a", "b">>,
                val |-> [a |-> [command |-> "c1", alwaysAllow |-> <<"u", "t">>], b |-> [url |-> "u1"]]],
               [keys |-> <<"a">>, val |-> [a |-> [command |-> "c1", alwaysAllow |-> <<"t", "u", "t">>]]],
               [keys |-> <<"a", "b">>,
                val |-> [a |-> [command |-> "c1", watchPaths |-> <<"w">>], b |-> [url |-> "u1"]]]},
        p \in {EmptyFile, [keys |-> <<"a">>, val |-> [a |-> [url |-> "u2"]]]}}

InitOps == InitFrom(InitOpsFiles)

NextOps ==
    \/ Idle /\ \E n \in Names, s \in Sources, tool \in Tools, allow \in BOOLEAN :
                    ToggleToolAlwaysAllow(n, s, tool, allow)
    \/ Idle /\ \E t \in Timeouts : UpdateServerTimeout("a", t, Undefined)
    \/ Idle /\ \E d \in BOOLEAN : ToggleServerDisabled("a", d, Undefined)
    \/ Idle /\ \E n \in Names, s \in OptSources : DeleteServer(n, s)
    \/ Idle /\ \E n \in Names : RestartConnection(n, Undefined)
    \/ \E n \in Names : FileWatcherFires(n)
    \/ ProviderCollected
    \/ Progress

SpecOps == InitOps /\ [][NextOps]_vars

\* Config files that hold entries which fail validation: the user writes
\* such an entry, or the file has one when the hub starts; one operation
\* at a time.
InvalidConfigs == {[command |-> "c1", url |-> "u1"]}

InitInvalidFiles ==
    {[global |-> g, project |-> EmptyFile] :
        g \in {[keys |-> <<"a", "b">>, val |-> [a |-> [command |-> "c1"], b |-> [url |-> "u1"]]],
               [keys |-> <<"a", "b">>,
                val |-> [a |-> [command |-> "c1", url |-> "u1"], b |-> [url |-> "u1"]]],
               [keys |-> <<"a", "b">>,
                val |-> [a |-> [command |-> "c1"], b |-> [command |-> "c1", url |-> "u1"]]]}}

InitInvalid == InitFrom(InitInvalidFiles)

NextInvalid ==
    \/ Idle /\ \E n \in Names, c \in InvalidConfigs \cup {[command |-> "c2"]} : FileEdit("global", n, c)
    \/ Idle /\ ConfigWatcherFires("global")
    \/ Idle /\ \E n \in Names, d \in BOOLEAN : ToggleServerDisabled(n, d, Undefined)
    \/ Idle /\ \E n \in Names : DeleteServer(n, Undefined)
    \/ Progress

SpecInvalid == InitInvalid /\ [][NextInvalid]_vars

\* The hub starts from a file whose one entry is any combination of the
\* fields that tell the two kinds apart, then the server is restarted.
Optional(key, values) == {EmptyObject} \cup {[k \in {key} |-> v] : v \in values}

ShapeInputs ==
    {Spread(Spread(Spread(Spread(Spread(cmd, url), ty), hd), ar), dis) :
        cmd \in Optional("command", {"", "c1"}),
        url \in Optional("url", {"not a url", "u1"}),
        ty \in Optional("type", {"stdio", "sse"}),
        hd \in Optional("headers", {[h |-> "v"]}),
        ar \in Optional("args", {<<"x">>}),
        dis \in Optional("disabled", {TRUE})}

InitValidateFiles ==
    {[global |-> [keys |-> <<"a">>, val |-> [a |-> c]], project |-> EmptyFile] : c \in ShapeInputs}

InitValidate == InitFrom(InitValidateFiles)

NextValidate ==
    \/ Idle /\ RestartConnection("a", Undefined)
    \/ \E i \in 1..Len(tasks), o \in {"connected", "disconnected", "throws"} : HandlerConnectSettles(i, o)
    \/ \E i \in 1..Len(tasks) : HandlerCloseSettles(i)
    \/ \E i \in 1..Len(tasks) : TaskReturns(i)

SpecValidate == InitValidate /\ [][NextValidate]_vars

\* Configuration changes of the global source that may overlap: the
\* operations of the hub are async and a second one can begin while the
\* first waits for its file write.
InitOverlapFiles ==
    {[global |-> [keys |-> <<"a", "b">>, val |-> [a |-> [command |-> "c1"], b |-> [url |-> "u1"]]],
      project |-> EmptyFile]}

InitOverlap == InitFrom(InitOverlapFiles)

OverlapTimeouts == {30}

NextOverlap ==
    \/ \E allow \in BOOLEAN : ToggleToolAlwaysAllow("a", "global", "t", allow)
    \/ ToggleServerDisabled("a", TRUE, "global")
    \/ \E t \in OverlapTimeouts : UpdateServerTimeout("b", t, "global")
    \/ Progress

SpecOverlap == InitOverlap /\ [][NextOverlap]_vars

\* A window without a workspace folder: the project source cannot be
\* resolved, the servers of the global file are configured and changed.
InitNoWorkspaceFiles ==
    {[global |-> g, project |-> EmptyFile] :
        g \in {[keys |-> <<"a">>, val |-> [a |-> [command |-> "c1"]]],
               [keys |-> <<"a", "b">>, val |-> [a |-> [command |-> "c1"], b |-> [url |-> "u1"]]]}}

InitNoWorkspace == InitFromHub(InitNoWorkspaceFiles, [NewHub EXCEPT !.workspace = FALSE])

NextNoWorkspace ==
    \/ Idle /\ \E n \in Names, d \in BOOLEAN, s \in {Undefined, "global"} : ToggleServerDisabled(n, d, s)
    \/ Idle /\ \E n \in Names : RestartConnection(n, Undefined)
    \/ Idle /\ ConfigWatcherFires("global")
    \/ Progress

SpecNoWorkspace == InitNoWorkspace /\ [][NextNoWorkspace]_vars

\* A detector of every configuration around the defaults is given a
\* sequence of tool calls; the first two calls differ in the order of
\* their parameters only.
ToolUses ==
    {[name |-> "read", params |-> <<<<"path", "p">>, <<"line", "1">>>>],
     [name |-> "read", params |-> <<<<"line", "1">>, <<"path", "p">>>>],
     [name |-> "read", params |-> <<<<"path", "q">>>>]}

ConsecutiveLimits == {-1, 0, 1, 3, 5, 7}

HistoryLengths == {0, 3, 20}

PatternLimits == {-1, 1, 2}

InitDetector ==
    /\ files = [s \in Sources |-> EmptyFile]
    /\ dirty = [s \in Sources |-> FALSE]
    /\ connections = <<>>
    /\ nextId = 1
    /\ tasks = <<>>
    /\ ops = 0
    /\ hub = NewHub
    /\ watch = NoWatchers
    /\ errored = NoErrors("stdio", <<1>>)
    /\ \E c \in ConsecutiveLimits, h \in HistoryLengths, p \in PatternLimits :
            detector = NewDetector(c, h, p)

NextDetector == \E toolUse \in ToolUses : Check(toolUse)

SpecDetector == InitDetector /\ [][NextDetector]_vars

\* A server whose connect never completes: the handler's connect of
\* HungServer never settles, every other wait of a task ends eventually.
HungServer == "a"

InitHangFiles ==
    {[global |-> g, project |-> p] :
        g \in {[keys |-> <<"a", "b">>, val |-> [a |-> [command |-> "c1"], b |-> [url |-> "u1"]]],
               [keys |-> <<"b", "a">>, val |-> [a |-> [command |-> "c1"], b |-> [url |-> "u1"]]],
               [keys |-> <<"a", "b">>,
                val |-> [a |-> [command |-> "c1", disabled |-> TRUE], b |-> [url |-> "u1"]]]},
        p \in {EmptyFile, [keys |-> <<"b">>, val |-> [b |-> [command |-> "c2"]]]}}

InitHang == InitFrom(InitHangFiles)

ConnectSettlesUnlessHung ==
    \E i \in 1..Len(tasks), o \in {"connected", "disconnected", "throws"} :
        /\ Waiting(tasks[i], "await_connect")
        /\ Head(tasks[i].stack).conn.name # HungServer
        /\ HandlerConnectSettles(i, o)

CloseSettles == \E i \in 1..Len(tasks) : HandlerCloseSettles(i)

WriteCompletes == \E i \in 1..Len(tasks) : WriteFileCompletes(i)

Returns == \E i \in 1..Len(tasks) : TaskReturns(i)

\* The event loop runs every continuation that is ready.
Settles == ConnectSettlesUnlessHung \/ CloseSettles \/ WriteCompletes \/ Returns

NextHang ==
    \/ \E d \in BOOLEAN : ToggleServerDisabled("b", d, Undefined)
    \/ \E d \in BOOLEAN : ToggleServerDisabled("a", d, Undefined)
    \/ ConnectSettlesUnlessHung
    \/ CloseSettles
    \/ WriteCompletes
    \/ Returns

SpecHang == InitHang /\ [][NextHang]_vars /\ WF_vars(Settles)

\* ----------------------------------------------------------------- claims
\* The events of kinds evs that task t logged in pass p for (name, source)
KeyEvents(t, evs, p, name, source) ==
    SelectSeq(t.log, LAMBDA e : e.ev \in evs /\ e.pass = p /\ e.name = name /\ e.source = source)

EventKinds(es) == [i \in 1..Len(es) |-> es[i].ev]

PassBegins(t) == SelectSeq(t.log, LAMBDA e : e.ev = "pass")

PassEnds(t, p) == SelectSeq(t.log, LAMBDA e : e.ev = "passEnd" /\ e.pass = p)

\* C1: whatever operations overlap, the live list never holds two records
\* with the same name and the same source.
C1_OneRecordPerKey ==
    \A i, j \in 1..Len(connections) :
        (connections[i].name = connections[j].name /\ connections[i].source = connections[j].source)
            => i = j

\* Two creations of one key overlapped: the one begun later has put its
\* record into the list while the one begun earlier still awaits its connect.
C1_Witness ==
    \E i \in 1..Len(tasks), k \in 1..Len(connections) :
        /\ Waiting(tasks[i], "await_connect")
        /\ Head(tasks[i].stack).conn.name = connections[k].name
        /\ Head(tasks[i].stack).conn.source = connections[k].source
        /\ Head(tasks[i].stack).conn.id < connections[k].id

\* The stored and the validated config of an entry at the start of a pass
StoredOf(e, name) == JsonParse(findServer(e.live, name, e.source)[1].config)

ValidatedOf(e, name) == validateServerConfig(e.configs.val[name]).data

IsLiveValidEntry(e, name) ==
    /\ Len(findServer(e.live, name, e.source)) > 0
    /\ validateServerConfig(e.configs.val[name]).success

DiffersIn(x, y, k) == (Has(x, k) # Has(y, k)) \/ (Has(x, k) /\ Has(y, k) /\ x[k] # y[k])

\* C2: in a completed pass that ran alone, an entry with a live record whose
\* stored and validated configs differ at most in timeout and alwaysAllow
\* causes no close and no create for its key; one whose configs differ in
\* command, args or url and which is not disabled causes exactly one close
\* followed by exactly one create.
C2_ReconcileByConnectionFields ==
    \A i \in 1..Len(tasks) :
        LET t == tasks[i]
            begins == PassBegins(t)
        IN  \A b \in 1..Len(begins) :
                LET e == begins[b]
                IN  Len(PassEnds(t, e.pass)) > 0 =>
                        \A n \in DOMAIN e.configs.val :
                            IsLiveValidEntry(e, n) =>
                                LET x == StoredOf(e, n)
                                    y == ValidatedOf(e, n)
                                    kinds == EventKinds(KeyEvents(t, {"close", "create"}, e.pass, n, e.source))
                                IN  /\ Without(x, {"timeout", "alwaysAllow"}) = Without(y, {"timeout", "alwaysAllow"})
                                        => kinds = <<>>
                                    /\ ((\E k \in {"command", "args", "url"} : DiffersIn(x, y, k))
                                            /\ ~Truthy(y, "disabled"))
                                        => kinds = <<"close", "create">>

\* A completed pass closed and recreated a live server whose command,
\* args or url changed, and left alone another whose timeout changed.
C2_Witness ==
    \E i \in 1..Len(tasks) :
        LET t == tasks[i]
            begins == PassBegins(t)
        IN  \E b \in 1..Len(begins) :
                LET e == begins[b]
                IN  /\ Len(PassEnds(t, e.pass)) > 0
                    /\ \E n \in DOMAIN e.configs.val :
                            /\ IsLiveValidEntry(e, n)
                            /\ \E k \in {"command", "args", "url"} : DiffersIn(StoredOf(e, n), ValidatedOf(e, n), k)
                            /\ ~Truthy(ValidatedOf(e, n), "disabled")
                            /\ EventKinds(KeyEvents(t, {"close", "create"}, e.pass, n, e.source))
                                    = <<"close", "create">>
                    /\ \E n \in DOMAIN e.configs.val :
                            /\ IsLiveValidEntry(e, n)
                            /\ DiffersIn(StoredOf(e, n), ValidatedOf(e, n), "timeout")
                            /\ Without(StoredOf(e, n), {"timeout"}) = Without(ValidatedOf(e, n), {"timeout"})
                            /\ KeyEvents(t, {"close", "create"}, e.pass, n, e.source) = <<>>

\* The events of kinds evs that task t logged for (name, source), in all its passes
TaskKeyEvents(t, evs, name, source) ==
    SelectSeq(t.log, LAMBDA e : e.ev \in evs /\ e.name = name /\ e.source = source)

ToggleSource(t) == serverSourceOf(t.pre.connections, t.args.name, t.args.source)

\* The toggle found the server configured as disabled, with no live record
ToggledOn(t) ==
    /\ t.op = "toggleServerDisabled" /\ ~t.args.disabled
    /\ ObjHas(t.pre.files[ToggleSource(t)], t.args.name)
    /\ Truthy(t.pre.files[ToggleSource(t)].val[t.args.name], "disabled")
    /\ findServer(t.pre.connections, t.args.name, ToggleSource(t)) = <<>>

\* The toggle disables a server that has a live record
ToggledOff(t) ==
    /\ t.op = "toggleServerDisabled" /\ t.args.disabled
    /\ findServer(t.pre.connections, t.args.name, ToggleSource(t)) # <<>>

\* C3: a toggleServerDisabled call that has returned without error made, over
\* its two passes, exactly one create when it took disabled from true to
\* false, and exactly one close and no create when it set disabled on a
\* server with a live record.
C3_ToggleOnceEach ==
    \A i \in 1..Len(tasks) :
        LET t == tasks[i]
        IN  (Done(t) /\ t.exc = NoExc) =>
                /\ ToggledOn(t) =>
                        Len(TaskKeyEvents(t, {"create"}, t.args.name, ToggleSource(t))) = 1
                /\ ToggledOff(t) =>
                        /\ Len(TaskKeyEvents(t, {"close"}, t.args.name, ToggleSource(t))) = 1
                        /\ Len(TaskKeyEvents(t, {"create"}, t.args.name, ToggleSource(t))) = 0

\* What holds of the first half: when no create of the call failed by
\* throwing, the toggle from true to false made exactly one create.
C3_OnPart ==
    \A i \in 1..Len(tasks) :
        LET t == tasks[i]
        IN  (Done(t) /\ t.exc = NoExc /\ ToggledOn(t)
                /\ \A k \in 1..Len(t.log) : t.log[k].ev # "caught") =>
                        Len(TaskKeyEvents(t, {"create"}, t.args.name, ToggleSource(t))) = 1

\* What holds of the second half: setting disabled on a live server makes
\* exactly one close and no create.
C3_OffPart ==
    \A i \in 1..Len(tasks) :
        LET t == tasks[i]
        IN  (Done(t) /\ t.exc = NoExc /\ ToggledOff(t)) =>
                        /\ Len(TaskKeyEvents(t, {"close"}, t.args.name, ToggleSource(t))) = 1
                        /\ Len(TaskKeyEvents(t, {"create"}, t.args.name, ToggleSource(t))) = 0

\* C4: updateServerTimeout with a timeout below 0 or above 3600 has failed
\* with the range error at once, having written no file, begun no pass and
\* broadcast nothing, with the files and the live list as they were; with a
\* timeout in 0..3600 on a server that is in the file of its source it
\* returns without error and the file holds that timeout.
C4_TimeoutRange ==
    \A i \in 1..Len(tasks) :
        LET t == tasks[i]
            src == ToggleSource(t)
        IN  t.op = "updateServerTimeout" =>
                /\ (t.args.timeout < 0 \/ t.args.timeout > 3600) =>
                        /\ Done(t)
                        /\ t.exc = Error("Timeout must be between 0 and 3600 seconds", t.args.name)
                        /\ t.log = <<>>
                        /\ files = t.pre.files
                        /\ connections = t.pre.connections
                /\ (t.args.timeout \in 0..3600 /\ ObjHas(t.pre.files[src], t.args.name) /\ Done(t)) =>
                        /\ t.exc = NoExc
                        /\ Has(files[src].val[t.args.name], "timeout")
                        /\ files[src].val[t.args.name].timeout = t.args.timeout

\* An updateServerTimeout with 3601 has failed with the range error.
C4_Witness ==
    \E i \in 1..Len(tasks) :
        /\ tasks[i].op = "updateServerTimeout" /\ tasks[i].args.timeout = 3601
        /\ Done(tasks[i])
        /\ tasks[i].exc.msg = "Timeout must be between 0 and 3600 seconds"
        /\ ObjHas(files[ToggleSource(tasks[i])], tasks[i].args.name)

\* An updateServerTimeout with 0 has returned and the file holds timeout 0.
C4_WitnessPersisted ==
    \E i \in 1..Len(tasks) :
        /\ tasks[i].op = "updateServerTimeout" /\ tasks[i].args.timeout = 0
        /\ Done(tasks[i]) /\ tasks[i].exc = NoExc
        /\ files[ToggleSource(tasks[i])].val[tasks[i].args.name].timeout = 0

IsCall(t) == t.op \in {"callTool", "readResource"}

ClientCalls(t) == SelectSeq(t.log, LAMBDA e : e.ev = "clientCall")

\* C5: callTool and readResource on a name with no live record (of the
\* source given, or of any source when none is given) have failed at once
\* with "Server not found: <name>", made no protocol call and left the live
\* list as it was.
C5_ServerNotFound ==
    \A i \in 1..Len(tasks) :
        LET t == tasks[i]
        IN  (IsCall(t) /\ findConnections(t.pre.connections, t.args.name, t.args.source) = <<>>) =>
                /\ Done(t)
                /\ t.exc = Error("Server not found", t.args.name)
                /\ ClientCalls(t) = <<>>
                /\ t.call = NoCall
                /\ connections = t.pre.connections
                /\ nextId = t.pre.nextId

\* A call that named a source in which the server has no record, while the
\* other source has one, has failed with "Server not found".
C5_Witness ==
    \E i \in 1..Len(tasks) :
        /\ IsCall(tasks[i]) /\ Done(tasks[i])
        /\ tasks[i].args.source # Undefined
        /\ findConnections(tasks[i].pre.connections, tasks[i].args.name, tasks[i].args.source) = <<>>
        /\ findConnections(tasks[i].pre.connections, tasks[i].args.name, Undefined) # <<>>
        /\ tasks[i].exc = Error("Server not found", tasks[i].args.name)

\* The configured entries of a name that the call addresses
ConfiguredIn(fs, name, source) ==
    {s \in Sources : (source = Undefined \/ s = source) /\ ObjHas(fs[s], name)}

\* C6: callTool and readResource on a server that the configuration holds
\* with disabled set fail with 'Server "<name>" is disabled' and make no
\* protocol call.
C6_DisabledError ==
    \A i \in 1..Len(tasks) :
        LET t == tasks[i]
            cfgd == ConfiguredIn(t.pre.files, t.args.name, t.args.source)
        IN  (IsCall(t) /\ cfgd # {}
                /\ \A s \in cfgd : Truthy(t.pre.files[s].val[t.args.name], "disabled")) =>
                    /\ Done(t)
                    /\ t.exc = Error("Server is disabled", t.args.name)
                    /\ ClientCalls(t) = <<>>

\* What one step does to the race of a call task
C7_RaceStep ==
    \A i \in 1..Len(tasks) :
        (Len(tasks') >= Len(tasks) /\ IsCall(tasks[i])) =>
            LET c == tasks[i].call
                d == tasks'[i].call
                t == tasks'[i]
            IN  /\ c.outcome # "none" => (d.outcome = c.outcome /\ t.exc = tasks[i].exc)
                /\ (c.timer = "armed" /\ d.timer = "fired" /\ c.underlying = "pending") =>
                        (d.outcome = "timeout" /\ Done(t) /\ t.exc.msg = "timed out"
                            /\ d.underlying = "pending")
                /\ (c.underlying = "pending" /\ d.underlying = "resolved" /\ c.timer = "armed") =>
                        (d.outcome = "result" /\ Done(t) /\ t.exc = NoExc)
                /\ (c.underlying = "pending" /\ d.underlying = "rejected" /\ c.timer = "armed") =>
                        (d.outcome = "error" /\ Done(t) /\ t.exc.msg = "protocol call failed")

\* C7: the caller of callTool/readResource observes the first settlement of
\* the race: the timeout error if the timer fires while the protocol call is
\* pending, the call's own result or error if the call settles while the
\* timer is armed; once observed the outcome never changes, and the timer
\* firing leaves the protocol call pending.
C7_FirstSettlementWins == [][C7_RaceStep]_vars

\* The caller observed the timeout and the protocol call resolved afterwards.
C7_Witness ==
    \E i \in 1..Len(tasks) :
        /\ IsCall(tasks[i]) /\ Done(tasks[i])
        /\ tasks[i].call.outcome = "timeout" /\ tasks[i].exc.msg = "timed out"
        /\ tasks[i].call.underlying = "resolved"

\* C8: when a pass whose snapshot omits a name has completed, the live list
\* (what getAllServers returns) holds no record of that name and source.
C8_DeletedIsGone ==
    \A i \in 1..Len(tasks) :
        LET t == tasks[i]
            begins == PassBegins(t)
        IN  \A b \in 1..Len(begins) :
                LET e == begins[b]
                    ends == PassEnds(t, e.pass)
                IN  Len(ends) > 0 =>
                        \A n \in Names \ DOMAIN e.configs.val :
                            findServer(ends[1].live, n, e.source) = <<>>

\* C9: after any number of appended errors the history holds at most 100
\* entries, and they are the latest ones appended, in the order in which
\* they arrived.
C9_HistoryLast100 ==
    LET h == errored.errorHistory
        c == errored.count
    IN  /\ Len(h) <= 100
        /\ Len(h) = IF c < 100 THEN c ELSE 100
        /\ \A i \in 1..Len(h) : h[i].n = c - Len(h) + i

\* 103 errors were appended and the history holds the 4th to the 103rd.
C9_Witness ==
    /\ errored.count = 103
    /\ Len(errored.errorHistory) = 100
    /\ errored.errorHistory[1].n = 4
    /\ errored.errorHistory[100].n = 103

\* C10: neither the current error of a record nor any entry of its history
\* is longer than 1000 characters.
C10_NoLongMessage ==
    /\ errored.error.length <= 1000
    /\ \A i \in 1..Len(errored.errorHistory) : errored.errorHistory[i].length <= 1000

\* C11: the hub is in the disposed state only while the registered-client
\* count is zero; a hub that has a registered client is never disposed.
C11_DisposedOnlyAtZero ==
    hub.isDisposed => hub.refCount = 0

\* The calls of dispose() and unregisterClient() made after the first
\* effective disposal: the step that starts one, with the task it starts
CallAfterDisposal(op) ==
    /\ hub.isDisposed
    /\ Len(tasks') = Len(tasks) + 1
    /\ tasks'[Len(tasks')].op = op

RestUnchanged == UNCHANGED <<files, dirty, connections, nextId, errored, detector, watch>>

TornDownAtMostOnce ==
    /\ hub.teardowns <= 1
    /\ \A d \in Disposables : hub.disposed[d] <= 1

C12_DisposeStep ==
    CallAfterDisposal("dispose") => Done(tasks'[Len(tasks')]) /\ hub' = hub /\ RestUnchanged

C12_UnregisterStep ==
    CallAfterDisposal("unregisterClient") =>
        /\ Done(tasks'[Len(tasks')])
        /\ hub' = [hub EXCEPT !.refCount = @ - 1]
        /\ RestUnchanged

C13_DeadlineIsConfigured ==
    \A i \in 1..Len(tasks) :
        \A k \in 1..Len(ClientCalls(tasks[i])) :
            LET e == ClientCalls(tasks[i])[k]
            IN  /\ Has(e.config, "timeout") => e.timeout = e.config.timeout
                /\ ~Has(e.config, "timeout") => e.timeout = DEFAULT_TIMEOUT

\* The same for the configured values other than 0
C13_NonZeroPart ==
    \A i \in 1..Len(tasks) :
        \A k \in 1..Len(ClientCalls(tasks[i])) :
            LET e == ClientCalls(tasks[i])[k]
            IN  /\ (Has(e.config, "timeout") /\ e.config.timeout # 0) => e.timeout = e.config.timeout
                /\ ~Has(e.config, "timeout") => e.timeout = DEFAULT_TIMEOUT

MutatingOps ==
    {"deleteServer", "restartConnection", "toggleToolAlwaysAllow", "toggleServerDisabled",
     "updateServerTimeout"}

Succeeded(t) == t.op \in MutatingOps /\ Done(t) /\ t.exc = NoExc

\* The events of the reconciliation step of an operation: the end of a
\* pass, or for a restart the close of the record or the caught failure
ReconcileEvents(t) ==
    IF t.op = "restartConnection" THEN {"close", "caught"} ELSE {"passEnd"}

\* C14: every successful deleteServer, restartConnection,
\* toggleToolAlwaysAllow, toggleServerDisabled and updateServerTimeout has
\* issued, after its reconciliation step and as its last call before it
\* returned, a broadcast of the server list; when the host was gone the
\* broadcast was skipped and the operation completed without error.
C14_BroadcastLast ==
    \A i \in 1..Len(tasks) :
        LET t == tasks[i]
            n == Len(t.log)
        IN  /\ Succeeded(t) =>
                /\ n >= 2
                /\ t.log[n].ev \in {"broadcast", "noProvider"}
                /\ hub.providerAlive => t.log[n].ev = "broadcast"
                /\ \E k \in 1..(n - 1) : t.log[k].ev \in ReconcileEvents(t)
                /\ \A k \in 1..(n - 1) : t.log[k].ev \in {"broadcast", "noProvider"} =>
                        \E j \in (k + 1)..(n - 1) : t.log[j].ev \in ReconcileEvents(t)
            /\ (t.op \in MutatingOps /\ n >= 1 /\ t.log[n].ev = "noProvider") =>
                    Done(t) /\ t.exc = NoExc

\* Each of the five operations has returned after its broadcast.
C14_Witness ==
    \E i \in 1..Len(tasks) :
        /\ Succeeded(tasks[i])
        /\ tasks[i].op = "toggleToolAlwaysAllow"
        /\ tasks[i].log[Len(tasks[i].log)].ev = "broadcast"
        /\ Len(PassBegins(tasks[i])) = 2

\* An operation has returned after the host was collected.
C14_WitnessNoProvider ==
    \E i \in 1..Len(tasks) :
        /\ Succeeded(tasks[i])
        /\ tasks[i].op = "deleteServer"
        /\ tasks[i].log[Len(tasks[i].log)].ev = "noProvider"

ListOf(config) == IF Has(config, "alwaysAllow") THEN config.alwaysAllow ELSE <<>>

Occurrences(list, tool) == Cardinality({k \in 1..Len(list) : list[k] = tool})

\* What C15 says of one returned toggle of a tool on an entry
ToggleOutcome(before, after, tool, allow) ==
    /\ Has(after, "alwaysAllow")
    /\ (Occurrences(after.alwaysAllow, tool) > 0) <=> allow
    /\ Occurrences(after.alwaysAllow, tool) <= 1
    /\ SelectSeq(after.alwaysAllow, LAMBDA x : x # tool) = SelectSeq(ListOf(before), LAMBDA x : x # tool)
    /\ Without(after, {"alwaysAllow"}) = Without(before, {"alwaysAllow"})
    /\ alwaysAllowAfter(after.alwaysAllow, tool, allow) = after.alwaysAllow

\* A toggleToolAlwaysAllow that has returned without error, on a server
\* that had an entry in the file of the source
ToggledTool(t) ==
    /\ t.op = "toggleToolAlwaysAllow" /\ Done(t) /\ t.exc = NoExc
    /\ ObjHas(t.pre.files[t.args.source], t.args.name)

\* C15: after toggleToolAlwaysAllow on an existing server the persisted
\* list contains the tool if and only if allow is true, at most once, with
\* every other tool and every other field unchanged, and the same toggle
\* applied again gives the same list.
C15_ToggleToolAlwaysAllow ==
    \A i \in 1..Len(tasks) :
        LET t == tasks[i]
        IN  ToggledTool(t) =>
                /\ ObjHas(files[t.args.source], t.args.name)
                /\ ToggleOutcome(t.pre.files[t.args.source].val[t.args.name],
                                 files[t.args.source].val[t.args.name], t.args.tool, t.args.allow)

\* The same for the entries whose list named the tool at most once before
C15_NoDuplicatePart ==
    \A i \in 1..Len(tasks) :
        LET t == tasks[i]
        IN  (ToggledTool(t)
                /\ Occurrences(ListOf(t.pre.files[t.args.source].val[t.args.name]), t.args.tool) <= 1) =>
                /\ ObjHas(files[t.args.source], t.args.name)
                /\ ToggleOutcome(t.pre.files[t.args.source].val[t.args.name],
                                 files[t.args.source].val[t.args.name], t.args.tool, t.args.allow)

\* The snapshot that pass p of task t was given
PassConfigs(t, p) == SelectSeq(t.log, LAMBDA e : e.ev = "pass" /\ e.pass = p)[1].configs

IsDisabledEntry(configs, name) ==
    ObjHas(configs, name) /\ Truthy(configs.val[name], "disabled")

\* C16: no live record has its disabled flag set or a disabled stored
\* config; no pass creates a connection for an entry its snapshot
\* disables; at the end of a pass no valid disabled entry of the snapshot
\* has a live record; and after a returned toggleServerDisabled(name, true)
\* on a live server the record is gone and the entry is still in the
\* file, disabled.
C16_NoDisabledRecord ==
    /\ \A k \in 1..Len(connections) :
            ~connections[k].disabled /\ ~Truthy(JsonParse(connections[k].config), "disabled")
    /\ \A i \in 1..Len(tasks) :
        LET t == tasks[i]
        IN  /\ \A k \in 1..Len(t.log) :
                LET e == t.log[k]
                IN  /\ (e.ev = "create" /\ e.pass > 0) => ~IsDisabledEntry(PassConfigs(t, e.pass), e.name)
                    /\ e.ev = "passEnd" =>
                            \A n \in Names :
                                (IsDisabledEntry(PassConfigs(t, e.pass), n)
                                    /\ validateServerConfig(PassConfigs(t, e.pass).val[n]).success) =>
                                        findServer(e.live, n, e.source) = <<>>
            /\ (Done(t) /\ t.exc = NoExc /\ ToggledOff(t)) =>
                    /\ findServer(connections, t.args.name, ToggleSource(t)) = <<>>
                    /\ IsDisabledEntry(files[ToggleSource(t)], t.args.name)

\* A live server was disabled: its record is gone, its entry is kept.
C16_Witness ==
    \E i \in 1..Len(tasks) :
        /\ Done(tasks[i]) /\ tasks[i].exc = NoExc /\ ToggledOff(tasks[i])
        /\ findServer(connections, tasks[i].args.name, ToggleSource(tasks[i])) = <<>>
        /\ IsDisabledEntry(files[ToggleSource(tasks[i])], tasks[i].args.name)
        /\ Len(connections) > 0

\* Task t has begun a pass for the source and not yet ended it
InPass(t, source) ==
    /\ ~Done(t)
    /\ \E k \in 1..Len(t.log) :
        /\ t.log[k].ev = "pass" /\ t.log[k].source = source
        /\ PassEnds(t, t.log[k].pass) = <<>>

\* C17: two reconciliation passes for the same source never overlap in
\* time: at no moment are two tasks inside a pass for one source.
C17_NoOverlappingPasses ==
    \A s \in Sources :
        \A i, j \in 1..Len(tasks) :
            (InPass(tasks[i], s) /\ InPass(tasks[j], s)) => i = j

\* A task is inside a pass for the source whose snapshot holds a valid,
\* enabled entry for the name
DesiredInPass(name, source) ==
    \E i \in 1..Len(tasks) :
        /\ ~Done(tasks[i])
        /\ \E k \in 1..Len(tasks[i].log) :
            LET e == tasks[i].log[k]
            IN  /\ e.ev = "pass" /\ e.source = source
                /\ PassEnds(tasks[i], e.pass) = <<>>
                /\ ObjHas(e.configs, name)
                /\ validateServerConfig(e.configs.val[name]).success
                /\ ~Truthy(e.configs.val[name], "disabled")

\* The server has a live record, or a task has called createConnection for it
Reconciled(name, source) ==
    \/ findServer(connections, name, source) # <<>>
    \/ \E i \in 1..Len(tasks) : TaskKeyEvents(tasks[i], {"create"}, name, source) # <<>>

\* C18: within a pass, a server whose connect never completes does not
\* block the others: every other desired, enabled, valid server of the
\* snapshot is eventually created (or has its record).
C18_HungDoesNotBlock ==
    DesiredInPass("b", "global") ~> Reconciled("b", "global")

\* The same for a server that its snapshot lists before the hung one
DesiredAheadOfHung(name, source) ==
    \E i \in 1..Len(tasks) :
        /\ ~Done(tasks[i])
        /\ \E k \in 1..Len(tasks[i].log) :
            LET e == tasks[i].log[k]
            IN  /\ e.ev = "pass" /\ e.source = source
                /\ PassEnds(tasks[i], e.pass) = <<>>
                /\ ObjHas(e.configs, name)
                /\ validateServerConfig(e.configs.val[name]).success
                /\ ~Truthy(e.configs.val[name], "disabled")
                /\ \A x, y \in 1..Len(e.configs.keys) :
                        (e.configs.keys[x] = name /\ e.configs.keys[y] = HungServer) => x < y
                /\ \A c \in SeqToSet(e.live) : c.name # HungServer

C18_AheadOfHungPart ==
    DesiredAheadOfHung("b", "global") ~> Reconciled("b", "global")

\* The record that was live when task t began is still in the list, and
\* neither t nor a file-watcher callback has closed or created a
\* connection for its key.
Untouched(t, c) ==
    /\ \E k \in 1..Len(connections) : connections[k].id = c.id
    /\ \A j \in 1..Len(tasks) :
            (tasks[j] = t \/ tasks[j].op = "fileWatcherChange") =>
                TaskKeyEvents(tasks[j], {"close", "create"}, c.name, c.source) = <<>>

IsFieldUpdate(t) == t.op \in {"updateServerTimeout", "toggleToolAlwaysAllow"}

\* C19: updateServerTimeout and toggleToolAlwaysAllow never close, restart
\* or recreate the connection of a live server, the callbacks of the
\* watchers that the config-file write fires included (no watcher had a
\* change to deliver when the operation began).
C19_FieldUpdateKeepsConnections ==
    \A i \in 1..Len(tasks) :
        LET t == tasks[i]
        IN  (IsFieldUpdate(t) /\ \A n \in DOMAIN t.pre.watch : ~t.pre.watch[n].pending) =>
                \A k \in 1..Len(t.pre.connections) : Untouched(t, t.pre.connections[k])

\* The same when no watcher is armed
C19_NoWatcherPart ==
    \A i \in 1..Len(tasks) :
        LET t == tasks[i]
        IN  (IsFieldUpdate(t) /\ t.pre.watch = NoWatchers /\ watch = NoWatchers) =>
                \A k \in 1..Len(t.pre.connections) : Untouched(t, t.pre.connections[k])

DeleteSource(t) == IF t.args.source # Undefined THEN t.args.source ELSE "global"

\* The record is in the list as it was when the task began
Kept(c) ==
    \E k \in 1..Len(connections) :
        connections[k].id = c.id /\ connections[k].status = c.status

\* C20: a deleteServer(name, source) that has returned closed and removed
\* only the record of the named server: every other record that was live
\* when it began, of the same source or of the other, is still present
\* with the same status and connection.
C20_DeleteOnlyNamed ==
    \A i \in 1..Len(tasks) :
        LET t == tasks[i]
        IN  (t.op = "deleteServer" /\ Done(t) /\ t.exc = NoExc) =>
                \A k \in 1..Len(t.pre.connections) :
                    LET c == t.pre.connections[k]
                    IN  ~(c.name = t.args.name /\ c.source = DeleteSource(t)) => Kept(c)

\* The same for the records of the other source
C20_OtherSourcePart ==
    \A i \in 1..Len(tasks) :
        LET t == tasks[i]
        IN  (t.op = "deleteServer" /\ Done(t) /\ t.exc = NoExc) =>
                \A k \in 1..Len(t.pre.connections) :
                    LET c == t.pre.connections[k]
                    IN  c.source # DeleteSource(t) => Kept(c)

\* The names with a live record of the source
LiveNames(source) == {connections[k].name : k \in {j \in 1..Len(connections) : connections[j].source = source}}

\* The names of the source's file whose entries validate and are not disabled
WantedNames(source) ==
    {n \in DOMAIN files[source].val :
        validateServerConfig(files[source].val[n]).success /\ ~Truthy(files[source].val[n], "disabled")}

ConfigOps ==
    {"deleteServer", "toggleServerDisabled", "toggleToolAlwaysAllow", "updateServerTimeout",
     "configWatcherChange"}

\* An operation or a config-change event has been processed without
\* error, no task is in flight and no change of a config file awaits its
\* watcher.
Settled ==
    /\ tasks # <<>>
    /\ \A i \in 1..Len(tasks) :
            Done(tasks[i]) /\ tasks[i].op \in ConfigOps /\ tasks[i].exc = NoExc
    /\ \A s \in Sources : ~dirty[s]

\* C21: whenever a mutating operation or a config-change event has been
\* fully processed and nothing else is in flight, for each source the
\* names with a live record are the names of the file that validate and
\* are not disabled.
C21_LiveMatchesConfig ==
    Settled => \A s \in Sources : LiveNames(s) = WantedNames(s)

\* One half holds: every live record is of a valid, enabled entry of the file.
C21_NoStaleRecordPart ==
    Settled => \A s \in Sources : LiveNames(s) \subseteq WantedNames(s)

\* The disposal has completed: the teardown has run and the disposables
\* have been disposed
DisposalCompleted == \A d \in Disposables : hub.disposed[d] >= 1

\* C22: after disposal completes the live connection list is empty and
\* no per-server watcher is armed, and they stay so, whatever
\* reconciliation, restart or initialization was in flight.
C22_DisposedStaysEmpty ==
    DisposalCompleted => connections = <<>> /\ watch = NoWatchers

\* The record leaves the live list in this step
Leaves(c) == \A j \in 1..Len(connections') : connections'[j].id # c.id

\* The close of the record's client and transport settles in this step
ClosedNow(c) ==
    \E i \in 1..Len(tasks) :
        /\ Waiting(tasks[i], "await_handlerClose")
        /\ Head(tasks[i].stack).id = c.id
        /\ Len(tasks') = Len(tasks) /\ tasks'[i] # tasks[i]

C23_Step ==
    \A k \in 1..Len(connections) :
        Leaves(connections[k]) => connections[k].closed \/ ClosedNow(connections[k])

\* C23: a record never leaves the live list, by removal or by being
\* replaced by a new record of its key, without the close of its client
\* and transport having been attempted first.
C23_ClosedBeforeLeaving == [][C23_Step]_vars

\* A restart of a server that had exactly one live record when it began is
\* the only task in flight
RestartInFlight(t) ==
    /\ t.op = "restartConnection" /\ ~Done(t)
    /\ Len(findConnections(t.pre.connections, t.args.name, t.args.source)) = 1
    /\ \A j \in 1..Len(tasks) : tasks[j] # t => Done(tasks[j])

RecordsOfRestart(t) ==
    LET old == findConnections(t.pre.connections, t.args.name, t.args.source)[1]
    IN  findConnections(connections, old.name, old.source)

\* A restart that has returned without error
RestartDone(t) ==
    /\ t.op = "restartConnection" /\ Done(t) /\ t.exc = NoExc
    /\ Len(findConnections(t.pre.connections, t.args.name, t.args.source)) = 1
    /\ \A j \in 1..Len(tasks) : Done(tasks[j])
    /\ Len(tasks) = 1

\* C24: while restartConnection of a live server is in flight, from its
\* beginning until the new connection attempt resolves, exactly one record
\* of that (name, source) is in the live list and its status is
\* "connecting"; the close of the old transport does not make it
\* "disconnected".
C24_ConnectingDuringRestart ==
    \A i \in 1..Len(tasks) :
        RestartInFlight(tasks[i]) =>
            /\ Len(RecordsOfRestart(tasks[i])) = 1
            /\ RecordsOfRestart(tasks[i])[1].status = "connecting"

\* The parts of C24 that hold: one record throughout the restart, and
\* after the restart one record of the stored config
C24_OneRecordPart ==
    \A i \in 1..Len(tasks) :
        /\ RestartInFlight(tasks[i]) => Len(RecordsOfRestart(tasks[i])) = 1
        /\ RestartDone(tasks[i]) =>
                LET old == findConnections(tasks[i].pre.connections, tasks[i].args.name,
                                           tasks[i].args.source)[1]
                    now == RecordsOfRestart(tasks[i])
                IN  /\ Len(now) = 1
                    /\ now[1].config = old.config

\* The operation began when the server had a live record in the source
BeganLive(t, name, source) == Len(findServer(t.pre.connections, name, source)) > 0

\* The server is absent from the file of the source, or disabled in it
NotWanted(name, source) ==
    \/ name \notin DOMAIN files[source].val
    \/ Truthy(files[source].val[name], "disabled")

\* A restart of the server and an operation that removes it, both begun
\* while it was live, have both returned, and nothing else is in flight
RestartAndRemovalDone(name, source) ==
    /\ \E i \in 1..Len(tasks) :
            tasks[i].op = "restartConnection" /\ tasks[i].args.name = name
            /\ BeganLive(tasks[i], name, source)
    /\ \E i \in 1..Len(tasks) :
            /\ tasks[i].op \in {"deleteServer", "toggleServerDisabled"}
            /\ tasks[i].args.name = name /\ tasks[i].exc = NoExc
            /\ BeganLive(tasks[i], name, source)
    /\ \A i \in 1..Len(tasks) : Done(tasks[i])

\* C25: a restart that overlaps a reconciliation pass removing the same
\* server does not bring it back: once both have completed, a server that
\* is absent from, or disabled in, the configuration of its source has no
\* live record and no armed watcher.
C25_NoResurrection ==
    \A n \in Names, s \in Sources :
        RestartAndRemovalDone(n, s) /\ NotWanted(n, s) =>
            /\ Len(findServer(connections, n, s)) = 0
            /\ n \notin DOMAIN watch

\* The handler's connect of task i settles in this step
ConnectSettlesNow(i) ==
    /\ Waiting(tasks[i], "await_connect")
    /\ Len(tasks') = Len(tasks) /\ tasks'[i] # tasks[i]

\* C26: for a config that has the fields its transport requires, the
\* handler's createConnection does not throw when establishing the
\* connection fails, at whatever step: it returns a record ("connected",
\* or "disconnected" on failure) and that record is placed in the live list.
C26_CreateNeverThrows ==
    [][\A i \in 1..Len(tasks) :
          ConnectSettlesNow(i) =>
              \E k \in 1..Len(connections') :
                  /\ connections'[k].id = Head(tasks[i].stack).conn.id
                  /\ connections'[k].status \in {"connected", "disconnected"}]_vars

\* The part of C26 that holds: a failure of the protocol handshake gives
\* a "disconnected" record in the live list
C26_HandshakePart ==
    [][\A i \in 1..Len(tasks) :
          ConnectSettlesNow(i) /\ tasks'[i].exc = NoExc
          /\ (\A j \in 1..Len(tasks'[i].log) : tasks'[i].log[j].ev # "caught") =>
              \E k \in 1..Len(connections') :
                  /\ connections'[k].id = Head(tasks[i].stack).conn.id
                  /\ connections'[k].status \in {"connected", "disconnected"}]_vars

LatestEntry(server) == server.errorHistory[Len(server.errorHistory)]

\* C27: for every kind of transport, a record's non-empty current error
\* is the message of the latest entry of its error history: a connect
\* failure or a transport error that sets the error also appends it.
C27_ErrorIsLatestEntry ==
    errored.error # NoError =>
        /\ errored.errorHistory # <<>>
        /\ LatestEntry(errored) = errored.error

\* The part of C27 that holds: what appendErrorMessage sets as the
\* current error is the entry it has just appended
C27_AppendPart ==
    [][errored'.count # errored.count =>
          errored'.errorHistory # <<>> /\ LatestEntry(errored') = errored'.error]_vars

\* The entry of the name in the snapshot fails validation
IsInvalidEntry(configs, name) ==
    ObjHas(configs, name) /\ ~validateServerConfig(configs.val[name]).success

\* The events of pass p of task t for the key
PassKeyEvents(t, p, evs, name, source) ==
    SelectSeq(t.log, LAMBDA e : e.ev \in evs /\ e.pass = p /\ e.name = name /\ e.source = source)

\* Pass e of task t left the record of an invalid entry alone: it neither
\* closed nor created a connection for it, and the record that was live
\* when the pass began is in the list, unmodified, when the pass ends
InvalidLeftAlone(t, e, n) ==
    /\ PassKeyEvents(t, e.pass, {"close", "create"}, n, e.source) = <<>>
    /\ \A j \in 1..Len(PassEnds(t, e.pass)) :
            findServer(PassEnds(t, e.pass)[j].live, n, e.source) = findServer(e.live, n, e.source)

\* Pass e of task t, at its end, has reconciled the valid entry n: an
\* enabled one has a record or its create was attempted, a disabled one
\* has no record
ValidReconciled(t, e, n) ==
    \A j \in 1..Len(PassEnds(t, e.pass)) :
        IF Truthy(e.configs.val[n], "disabled")
        THEN findServer(PassEnds(t, e.pass)[j].live, n, e.source) = <<>>
        ELSE \/ findServer(PassEnds(t, e.pass)[j].live, n, e.source) # <<>>
             \/ PassKeyEvents(t, e.pass, {"create"}, n, e.source) # <<>>

\* C28: in a reconciliation pass an entry whose config fails validation is
\* skipped: its live record, if any, is neither closed nor modified, and
\* every other entry of the snapshot is still reconciled.
C28_InvalidEntrySkipped ==
    \A i \in 1..Len(tasks) :
        \A k \in 1..Len(tasks[i].log) :
            LET t == tasks[i]
                e == t.log[k]
            IN  (e.ev = "pass" /\ \E n \in Names : IsInvalidEntry(e.configs, n)) =>
                    \A n \in Names :
                        /\ IsInvalidEntry(e.configs, n) => InvalidLeftAlone(t, e, n)
                        /\ (ObjHas(e.configs, n) /\ ~IsInvalidEntry(e.configs, n)) =>
                                ValidReconciled(t, e, n)

\* A pass has ended whose snapshot held an invalid entry with a live
\* record, and a valid entry that the pass closed or created
C28_Witness ==
    \E i \in 1..Len(tasks) :
        \E k \in 1..Len(tasks[i].log) :
            LET t == tasks[i]
                e == t.log[k]
            IN  /\ e.ev = "pass" /\ PassEnds(t, e.pass) # <<>>
                /\ \E n \in Names :
                        /\ IsInvalidEntry(e.configs, n)
                        /\ findServer(e.live, n, e.source) # <<>>
                        /\ findServer(connections, n, e.source) = findServer(e.live, n, e.source)
                /\ \E n \in Names :
                        /\ ObjHas(e.configs, n) /\ ~IsInvalidEntry(e.configs, n)
                        /\ PassKeyEvents(t, e.pass, {"close", "create"}, n, e.source) # <<>>

\* Every entry of the file validates
AllValid(file) == \A n \in DOMAIN file.val : validateServerConfig(file.val[n]).success

\* The passes that the listener of task t ran
Passes(t) == SelectSeq(t.log, LAMBDA e : e.ev = "pass")

C29_WitnessNotified ==
    \E i \in 1..Len(tasks) :
        /\ tasks[i].op = "configWatcherChange" /\ Done(tasks[i])
        /\ Len(Passes(tasks[i])) = 1
        /\ TaskKeyEvents(tasks[i], {"create"}, "a", "global") # <<>>

\* The operations that go through updateServerConfig or deleteServerConfig,
\* with an argument that the operation itself accepts
IsConfigWrite(t) ==
    \/ t.op \in {"toggleServerDisabled", "deleteServer"}
    \/ t.op = "updateServerTimeout" /\ t.args.timeout >= MIN_TIMEOUT /\ t.args.timeout <= MAX_TIMEOUT

WriteSource(t) == IF t.op = "deleteServer" THEN DeleteSource(t) ELSE ToggleSource(t)

Updates(t) ==
    IF t.op = "toggleServerDisabled" THEN [disabled |-> t.args.disabled]
    ELSE [timeout |-> t.args.timeout]

\* { ...(config[serverName] || {}), ...updates } of the file as the operation read it
Merged(t) ==
    LET file == t.pre.files[WriteSource(t)]
    IN  Spread(IF ObjHas(file, t.args.name) THEN file.val[t.args.name] ELSE EmptyObject, Updates(t))

\* The operation must fail: nothing to delete, or a merged entry that does not validate
MustFail(t) ==
    IF t.op = "deleteServer" THEN ~ObjHas(t.pre.files[WriteSource(t)], t.args.name)
    ELSE ~validateServerConfig(Merged(t)).success

\* The map holds the modification of the operation
HoldsModification(t, configs) ==
    IF t.op = "deleteServer" THEN ~ObjHas(configs, t.args.name)
    ELSE ObjHas(configs, t.args.name) /\ configs.val[t.args.name] = Merged(t)

\* C30: updateServerConfig and deleteServerConfig fail, with the file not
\* written and no listener notified, when the merged config does not
\* validate or the server to delete is not in the file; otherwise the file
\* is written first, then the listener is notified with a map that holds
\* the modification, and its pass has ended when the operation returns.
C30_WriteThenNotify ==
    \A i \in 1..Len(tasks) :
        LET t == tasks[i]
        IN  IsConfigWrite(t) =>
                IF MustFail(t)
                THEN /\ Done(t) /\ t.exc # NoExc
                     /\ t.log = <<>>
                     /\ files = t.pre.files /\ connections = t.pre.connections
                ELSE /\ t.log # <<>> => t.log[1] = [ev |-> "writeFile", source |-> WriteSource(t)]
                     /\ Len(t.log) >= 2 =>
                            /\ t.log[2].ev = "pass" /\ t.log[2].source = WriteSource(t)
                            /\ HoldsModification(t, t.log[2].configs)
                            /\ HoldsModification(t, files[WriteSource(t)])
                     /\ Done(t) => t.exc = NoExc /\ PassEnds(t, 1) # <<>>

\* A toggle wrote the file and the listener's pass closed the server
C30_Witness ==
    \E i \in 1..Len(tasks) :
        LET t == tasks[i]
        IN  /\ t.op = "toggleServerDisabled" /\ ~MustFail(t) /\ Done(t)
            /\ HoldsModification(t, files[WriteSource(t)])
            /\ files # t.pre.files
            /\ PassKeyEvents(t, 1, {"close"}, t.args.name, WriteSource(t)) # <<>>

\* An update of a server that is not in the file has failed
C30_WitnessFails ==
    \E i \in 1..Len(tasks) :
        /\ IsConfigWrite(tasks[i]) /\ tasks[i].op # "deleteServer" /\ MustFail(tasks[i])
        /\ Done(tasks[i]) /\ Len(connections) > 0

\* The entry of the snapshot for the record differs from the record's
\* stored config in timeout and alwaysAllow at most
OnlyDynamicFieldsDiffer(configs, c) ==
    /\ ObjHas(configs, c.name)
    /\ validateServerConfig(configs.val[c.name]).success
    /\ stripNonConnectionFields(validateServerConfig(configs.val[c.name]).data)
            = stripNonConnectionFields(JsonParse(c.config))

\* Every pass that has ended left such a record in place, the same
\* connection with the same status, its stored config the new validated one
PatchedInPlace(t) ==
    \A k \in 1..Len(t.log) :
        LET e == t.log[k]
        IN  (e.ev = "pass" /\ PassEnds(t, e.pass) # <<>>) =>
                \A j \in 1..Len(e.live) :
                    LET c == e.live[j]
                    IN  OnlyDynamicFieldsDiffer(e.configs, c) =>
                            findServer(PassEnds(t, e.pass)[1].live, c.name, c.source)
                                = <<[c EXCEPT !.config =
                                        JsonStringify(validateServerConfig(e.configs.val[c.name]).data)]>>

\* A call on a server whose file entry differs from the stored config in
\* timeout and alwaysAllow at most uses the timeout of the file entry
CallUsesFileTimeout(t) ==
    \A k \in 1..Len(ClientCalls(t)) :
        LET e == ClientCalls(t)[k]
            c == SelectSeq(t.pre.connections, LAMBDA r : r.id = e.id)[1]
            entry == t.pre.files[c.source].val[c.name]
        IN  OnlyDynamicFieldsDiffer(t.pre.files[c.source], c) =>
                e.timeout = IF Has(entry, "timeout") THEN entry.timeout ELSE DEFAULT_TIMEOUT

\* C31: a pass in which the config of a live server changed in timeout
\* and/or alwaysAllow only leaves the record's client, transport and
\* status as they were and makes its stored config the new validated
\* config, so that the next callTool/readResource uses the new timeout.
C31_DynamicFieldsPatched ==
    \A i \in 1..Len(tasks) : PatchedInPlace(tasks[i]) /\ CallUsesFileTimeout(tasks[i])

\* The part of C31 about the record
C31_RecordPart == \A i \in 1..Len(tasks) : PatchedInPlace(tasks[i])

\* The part of C31 about the call, for timeouts other than 0
C31_NonZeroCallPart ==
    \A i \in 1..Len(tasks) :
        \A k \in 1..Len(ClientCalls(tasks[i])) :
            LET t == tasks[i]
                e == ClientCalls(t)[k]
                c == SelectSeq(t.pre.connections, LAMBDA r : r.id = e.id)[1]
                entry == t.pre.files[c.source].val[c.name]
            IN  (OnlyDynamicFieldsDiffer(t.pre.files[c.source], c)
                    /\ Has(entry, "timeout") /\ entry.timeout # 0) =>
                        e.timeout = entry.timeout /\ JsonParse(c.config).timeout = entry.timeout

\* Task i, an operation whose passes are all for one source, steps
PassStepOf(i) ==
    /\ Len(tasks') = Len(tasks) /\ tasks'[i] # tasks[i]
    /\ tasks[i].op \in {"toggleServerDisabled", "updateServerTimeout", "deleteServer"}
    /\ \A k \in 1..Len(Passes(tasks'[i])) : Passes(tasks'[i])[k].source = WriteSource(tasks[i])

\* The records of the other sources are in the list as they were
OtherRecordsKept(source) ==
    SelectSeq(connections', LAMBDA c : c.source # source)
        = SelectSeq(connections, LAMBDA c : c.source # source)

\* The watchers armed for servers of the other sources are still armed
OtherWatchersKept(source) ==
    \A n \in DOMAIN watch :
        watch[n].source # source =>
            n \in DOMAIN watch' /\ watch'[n].source = watch[n].source /\ watch'[n].paths = watch[n].paths

\* C32: updateServerConnections(configs, S) affects source S only: no step
\* of a pass for S closes, creates or modifies a live record of the other
\* source, or clears the file watchers of a server of the other source,
\* one of the same name included.
C32_OtherSourceUntouched ==
    [][\A i \in 1..Len(tasks) :
          PassStepOf(i) =>
              /\ OtherRecordsKept(WriteSource(tasks[i]))
              /\ OtherWatchersKept(WriteSource(tasks[i]))]_vars

\* The part of C32 about the records
C32_RecordsPart ==
    [][\A i \in 1..Len(tasks) : PassStepOf(i) => OtherRecordsKept(WriteSource(tasks[i]))]_vars

\* The passes of these operations are all for the source of the operation
C32_OneSourcePart ==
    \A i \in 1..Len(tasks) :
        tasks[i].op \in {"toggleServerDisabled", "updateServerTimeout", "deleteServer"} =>
            \A k \in 1..Len(Passes(tasks[i])) : Passes(tasks[i])[k].source = WriteSource(tasks[i])

\* The server list that notifyServersChanged computes in the current state
Now == [files |-> files, connections |-> connections, hub |-> hub]

ServersNow == enhanceServersWithConnectionInfo(Now, getAllServersFromConfig(Now))

\* The entries of the list for the server
ReportedNow(name, source) == SelectSeq(ServersNow, LAMBDA e : e.name = name /\ e.source = source)

\* C33: when a connection is created its first status notification is
\* "connecting", issued before the connect attempt, and the broadcast that
\* a status notification triggers reports the server with that status:
\* while the attempt is pending, the server list computed for the
\* broadcast reports the server as "connecting".
C33_BroadcastShowsConnecting ==
    \A i \in 1..Len(tasks) :
        Waiting(tasks[i], "await_connect") =>
            LET conn == Head(tasks[i].stack).conn
            IN  /\ conn.status = "connecting"
                /\ \A k \in 1..Len(ReportedNow(conn.name, conn.source)) :
                        ReportedNow(conn.name, conn.source)[k].status = "connecting"

\* The part of C33 that holds: the record is built in status "connecting"
\* before the connect attempt, and once the record is in the live list a
\* broadcast reports the server with the status of the record
C33_RecordStatusPart ==
    /\ \A i \in 1..Len(tasks) :
            Waiting(tasks[i], "await_connect") => Head(tasks[i].stack).conn.status = "connecting"
    /\ \A k \in 1..Len(ServersNow) :
            LET live == findServer(connections, ServersNow[k].name, ServersNow[k].source)
            IN  ServersNow[k].status = IF Len(live) > 0 THEN live[1].status ELSE "disconnected"

\* The always-allow list of the server in the config file of its source
AlwaysAllowOnDisk(fs, name, source) ==
    IF ObjHas(fs[source], name) /\ Has(fs[source].val[name], "alwaysAllow")
    THEN SeqToSet(fs[source].val[name].alwaysAllow) ELSE {}

\* Every tool of every server of the list is flagged by the files
FlagsFromDisk(servers, fs) ==
    \A k \in 1..Len(servers) :
        \A j \in 1..Len(servers[k].tools) :
            servers[k].tools[j].alwaysAllow
                <=> servers[k].tools[j].name \in AlwaysAllowOnDisk(fs, servers[k].name, servers[k].source)

\* The broadcasts that task i issues in this step
NewBroadcasts(i) ==
    LET old == IF i <= Len(tasks) THEN Len(tasks[i].log) ELSE 0
    IN  {k \in (old + 1)..Len(tasks'[i].log) : tasks'[i].log[k].ev = "broadcast"}

\* The tool entries of the live records are as the handler fetched them
ToolsAsFetched(conns) ==
    \A k \in 1..Len(conns) : conns[k].tools \in {fetchToolsList("connected"), fetchToolsList("disconnected")}

\* C34: in every broadcast the alwaysAllow flag of each tool is membership
\* of its name in the always-allow list of the server's entry in the
\* config file as it is when the broadcast is made, not in the config
\* stored in the live record; and a broadcast leaves the tool entries of
\* the live records as they were.
C34_FlagsFromDisk ==
    [][/\ Len(tasks') >= Len(tasks) =>
            \A i \in 1..Len(tasks') :
                \A k \in NewBroadcasts(i) : FlagsFromDisk(tasks'[i].log[k].servers, files')
       /\ ToolsAsFetched(connections')]_vars

\* A broadcast flags a tool that the file allows and the config stored in
\* the live record does not
C34_Witness ==
    \E i \in 1..Len(tasks) :
        /\ tasks[i].log # <<>>
        /\ LET e == tasks[i].log[Len(tasks[i].log)]
           IN  /\ e.ev = "broadcast"
               /\ \E k \in 1..Len(e.servers) :
                    LET sv == e.servers[k]
                        live == findServer(connections, sv.name, sv.source)
                    IN  /\ Len(live) = 1 /\ live[1].status = "connected"
                        /\ ~Has(JsonParse(live[1].config), "alwaysAllow")
                        /\ AlwaysAllowOnDisk(files, sv.name, sv.source) = {"t"}
                        /\ \E j \in 1..Len(sv.tools) : sv.tools[j].name = "t" /\ sv.tools[j].alwaysAllow
                        /\ \E j \in 1..Len(sv.tools) : sv.tools[j].name = "u" /\ ~sv.tools[j].alwaysAllow

\* The two shapes, in the words of C35
SubprocessShape(c) ==
    /\ Has(c, "command") /\ c.command # ""
    /\ ~Has(c, "url") /\ ~Has(c, "headers")
    /\ (~Has(c, "type") \/ c.type = "stdio")

EventStreamShape(c) ==
    /\ Has(c, "url") /\ c.url = "u1"
    /\ ~Has(c, "command") /\ ~Has(c, "args") /\ ~Has(c, "cwd") /\ ~Has(c, "env")
    /\ (~Has(c, "type") \/ c.type = "sse")

\* The config has no field of the kind it is not
Unmixed(c) ==
    /\ Has(c, "type") /\ c.type \in Handlers
    /\ c.type = "stdio" => Has(c, "command") /\ ~Has(c, "url") /\ ~Has(c, "headers")
    /\ c.type = "sse" =>
            Has(c, "url") /\ ~Has(c, "command") /\ ~Has(c, "args") /\ ~Has(c, "cwd") /\ ~Has(c, "env")

\* C35: validateServerConfig accepts a config exactly when it has the
\* subprocess shape or the SSE shape and returns it with the kind of that
\* shape; a config with both a command and a url, with neither, or with a
\* type that contradicts its fields is rejected; and no live record's
\* stored config mixes the fields of the two kinds.
C35_ShapesOnly ==
    /\ \A n \in DOMAIN files["global"].val :
            LET c == files["global"].val[n]
                v == validateServerConfig(c)
            IN  /\ v.success <=> (SubprocessShape(c) \/ EventStreamShape(c))
                /\ (v.success /\ SubprocessShape(c)) => v.data.type = "stdio"
                /\ (v.success /\ EventStreamShape(c)) => v.data.type = "sse"
                /\ (Has(c, "command") /\ Has(c, "url")) => ~v.success
                /\ (~Has(c, "command") /\ ~Has(c, "url")) => ~v.success
                /\ v.success => Unmixed(v.data)
    /\ \A k \in 1..Len(connections) : Unmixed(JsonParse(connections[k].config))
    /\ \A i \in 1..Len(tasks) :
            \A k \in 1..Len(tasks[i].log) :
                tasks[i].log[k].ev = "create" =>
                    \E n \in DOMAIN files["global"].val :
                        SubprocessShape(files["global"].val[n]) \/ EventStreamShape(files["global"].val[n])

\* A server of the SSE shape, given with headers, is live after a restart
C35_Witness ==
    /\ Len(connections) = 1
    /\ JsonParse(connections[1].config).type = "sse"
    /\ Has(files["global"].val["a"], "headers")
    /\ \E i \in 1..Len(tasks) : tasks[i].op = "restartConnection" /\ Done(tasks[i])

\* A config with a command and a url was rejected: no record, no create
C35_WitnessRejected ==
    /\ Has(files["global"].val["a"], "command") /\ files["global"].val["a"].command = "c1"
    /\ Has(files["global"].val["a"], "url") /\ files["global"].val["a"].url = "u1"
    /\ connections = <<>>
    /\ \E i \in 1..Len(tasks) :
            Done(tasks[i]) /\ \E k \in 1..Len(tasks[i].log) : tasks[i].log[k].ev = "caught"

\* The closes and creates of pass p of task t
PassActs(t, p) == SelectSeq(t.log, LAMBDA e : e.ev \in {"close", "create"} /\ e.pass = p)

\* Pass q of task t repeats the snapshot and the source of its pass p,
\* which has ended before q began
Repeats(t, p, q) ==
    /\ p < q
    /\ \E j, k \in 1..Len(t.log) :
            /\ t.log[j].ev = "pass" /\ t.log[j].pass = p
            /\ t.log[k].ev = "pass" /\ t.log[k].pass = q
            /\ t.log[j].source = t.log[k].source /\ t.log[j].configs = t.log[k].configs
    /\ PassEnds(t, p) # <<>>

\* The second pass did nothing: no close, no create, and at its end the
\* records of the source are those the first pass left
SecondPassIdle(t, p, q) ==
    /\ PassActs(t, q) = <<>>
    /\ PassEnds(t, q) # <<>> => PassEnds(t, q)[1].live = PassEnds(t, p)[1].live

\* C36: reconciliation is idempotent and does not retry: a pass that
\* repeats the snapshot of the pass before it, for the same source, closes
\* nothing, creates nothing and leaves the status of every record as it
\* was, the "disconnected" ones included.
C36_SecondPassIdle ==
    \A i \in 1..Len(tasks) :
        \A p, q \in 1..tasks[i].pass :
            Repeats(tasks[i], p, q) => SecondPassIdle(tasks[i], p, q)

\* The same when no create of the first pass threw
C36_NoThrowPart ==
    \A i \in 1..Len(tasks) :
        \A p, q \in 1..tasks[i].pass :
            (Repeats(tasks[i], p, q)
                /\ \A k \in 1..Len(tasks[i].log) : tasks[i].log[k].ev # "caught") =>
                    SecondPassIdle(tasks[i], p, q)

\* The sources whose file, as the operation found it, defines the server
DefinedIn(t) == {s \in Sources : ObjHas(t.pre.files[s], t.args.name)}

\* A toggle or a timeout update that names no source, with an argument the
\* operation accepts, for a server that exactly one source defines
SourcelessUpdate(t, s) ==
    /\ IsConfigWrite(t) /\ t.op # "deleteServer"
    /\ t.args.source = Undefined
    /\ DefinedIn(t) = {s}
    /\ validateServerConfig(Spread(t.pre.files[s].val[t.args.name], Updates(t))).success

\* The writes of task t
WritesOf(t) == SelectSeq(t.log, LAMBDA e : e.ev = "writeFile")

\* The finished operation has modified the entry in the file of source s
\* and no other file
ModifiedIn(t, s) ==
    /\ WritesOf(t) # <<>>
    /\ \A k \in 1..Len(WritesOf(t)) : WritesOf(t)[k].source = s
    /\ ObjHas(files[s], t.args.name)
    /\ files[s].val[t.args.name] = Spread(t.pre.files[s].val[t.args.name], Updates(t))
    /\ \A o \in Sources \ {s} : files[o] = t.pre.files[o]

\* C37: toggleServerDisabled and updateServerTimeout called without a
\* source modify the file of the source that defines the server, also when
\* the server has no live record, and leave the other source's file alone.
C37_DefiningSourceModified ==
    \A i \in 1..Len(tasks), s \in Sources :
        (SourcelessUpdate(tasks[i], s) /\ Done(tasks[i])) => ModifiedIn(tasks[i], s)

\* The same for a server that had a live record when the operation began
C37_LiveRecordPart ==
    \A i \in 1..Len(tasks), s \in Sources :
        (SourcelessUpdate(tasks[i], s) /\ Done(tasks[i])
            /\ findConnections(tasks[i].pre.connections, tasks[i].args.name, Undefined) # <<>>
            /\ findConnections(tasks[i].pre.connections, tasks[i].args.name, Undefined)[1].source = s) =>
                ModifiedIn(tasks[i], s)

\* Whatever the records, no file of a source that does not define the
\* server is written
C37_OtherFilePart ==
    \A i \in 1..Len(tasks), s \in Sources :
        (SourcelessUpdate(tasks[i], s) /\ Done(tasks[i])) =>
            \A o \in Sources \ {s} : files[o] = tasks[i].pre.files[o]

\* The operations that change one entry of a config file
IsMutation(t) == t.op \in {"toggleToolAlwaysAllow", "toggleServerDisabled", "updateServerTimeout"}

\* The entry of the server of operation t in the files fs ({} when absent)
EntryIn(fs, t) ==
    IF ObjHas(fs[t.args.source], t.args.name) THEN fs[t.args.source].val[t.args.name] ELSE EmptyObject

\* The entry holds the change that operation t makes
ChangePresent(t, entry) ==
    CASE t.op = "toggleServerDisabled" -> Has(entry, "disabled") /\ entry.disabled = t.args.disabled
      [] t.op = "updateServerTimeout" -> Has(entry, "timeout") /\ entry.timeout = t.args.timeout
      [] t.op = "toggleToolAlwaysAllow" ->
            LET list == IF Has(entry, "alwaysAllow") THEN entry.alwaysAllow ELSE <<>>
            IN  (IndexOf(list, t.args.tool) # 0) = t.args.allow

\* Two mutations of the same source, on different servers, have both
\* completed without an error
BothCompleted(t, u) ==
    /\ IsMutation(t) /\ IsMutation(u)
    /\ t.args.source = u.args.source /\ t.args.name # u.args.name
    /\ Done(t) /\ Done(u) /\ t.exc = NoExc /\ u.exc = NoExc

\* C38: two config mutations of the same source that overlap in time are
\* both present in the file once both have completed; neither
\* read-modify-write overwrites the change of the other.
C38_BothChangesPresent ==
    \A i, j \in 1..Len(tasks) :
        (i < j /\ BothCompleted(tasks[i], tasks[j])) =>
            /\ ChangePresent(tasks[i], EntryIn(files, tasks[i]))
            /\ ChangePresent(tasks[j], EntryIn(files, tasks[j]))

\* The same when the second operation read the file after the first had
\* written it
C38_SequentialPart ==
    \A i, j \in 1..Len(tasks) :
        (i < j /\ BothCompleted(tasks[i], tasks[j])
            /\ ~ChangePresent(tasks[i], EntryIn(tasks[i].pre.files, tasks[i]))
            /\ ChangePresent(tasks[i], EntryIn(tasks[j].pre.files, tasks[i]))) =>
                /\ ChangePresent(tasks[i], EntryIn(files, tasks[i]))
                /\ ChangePresent(tasks[j], EntryIn(files, tasks[j]))

\* The last of two mutations to write holds its own change
C38_LastWriterPart ==
    \A i, j \in 1..Len(tasks) :
        (i < j /\ BothCompleted(tasks[i], tasks[j])) =>
            \/ ChangePresent(tasks[i], EntryIn(files, tasks[i]))
            \/ ChangePresent(tasks[j], EntryIn(files, tasks[j]))

\* The list holds the server of the global file, once, with the status of
\* its live record ("disconnected" when it has none)
ListsGlobalServer(servers, name, conns) ==
    LET entries == SelectSeq(servers, LAMBDA e : e.name = name /\ e.source = "global")
        live == findServer(conns, name, "global")
    IN  /\ Len(entries) = 1
        /\ entries[1].status = IF Len(live) > 0 THEN live[1].status ELSE "disconnected"

\* C39: without a workspace the project source cannot be resolved, and
\* every broadcast still lists every server of the global configuration
\* with the status of its live record.
C39_GlobalServersListed ==
    [][(~hub'.workspace /\ Len(tasks') >= Len(tasks)) =>
            \A i \in 1..Len(tasks') :
                \A k \in NewBroadcasts(i) :
                    \A j \in 1..Len(files'["global"].keys) :
                        ListsGlobalServer(tasks'[i].log[k].servers, files'["global"].keys[j], connections')]_vars

\* What a broadcast without a workspace holds: no server at all
C39_EmptyListPart ==
    [][(~hub'.workspace /\ Len(tasks') >= Len(tasks)) =>
            \A i \in 1..Len(tasks') :
                \A k \in NewBroadcasts(i) : tasks'[i].log[k].servers = <<>>]_vars

\* With a workspace every server of the global file is in the list
C39_WorkspacePart ==
    [][(hub'.workspace /\ Len(tasks') >= Len(tasks)) =>
            \A i \in 1..Len(tasks') :
                \A k \in NewBroadcasts(i) :
                    \A j \in 1..Len(files'["global"].keys) :
                        \E e \in 1..Len(tasks'[i].log[k].servers) :
                            /\ tasks'[i].log[k].servers[e].name = files'["global"].keys[j]
                            /\ tasks'[i].log[k].servers[e].source = "global"]_vars

\* Every call the detector was given is the same call: a run of identical
\* tool calls from a fresh detector
IdenticalRun(d) == \A k \in 1..Len(d.calls) : d.calls[k] = d.calls[1]

\* The calls that check refused
Blocked(d) == {k \in 1..Len(d.verdicts) : ~d.verdicts[k]}

\* C40: with a consecutive limit of 0 or less check allows every call;
\* with a limit L of 1 or more, whatever the pattern limit, the first call
\* of a run of identical calls that check refuses is the L-th, and the
\* calls before it are allowed.
C40_FirstBlockedIsLth ==
    LET L == detector.consecutiveIdenticalToolCallLimit
    IN  IF L = 0 THEN Blocked(detector) = {}
        ELSE IdenticalRun(detector) =>
                /\ \A k \in Blocked(detector) : k >= L
                /\ Len(detector.verdicts) >= L => L \in Blocked(detector)

\* A limit of 0 or less allows every call, identical or not
C40_DisabledPart ==
    detector.consecutiveIdenticalToolCallLimit = 0 => Blocked(detector) = {}

\* The L-th call of the run is never allowed when the L - 1 before it were
C40_NotLaterPart ==
    LET L == detector.consecutiveIdenticalToolCallLimit
    IN  (L >= 1 /\ IdenticalRun(detector) /\ Len(detector.verdicts) >= L) =>
            \E k \in Blocked(detector) : k <= L

\* The call of a run of identical calls at which the pattern detection
\* answers first: a run of 2 * (limit + 1) calls holds the pattern of two
\* calls limit + 1 times, and no pattern is looked for in fewer than 4
\* calls or in a history that cannot hold them
PatternBlocksAt(d) == MaxOf(4, 2 * (d.patternRepetitionLimit + 1))

\* The first refused call of the run is the L-th or the one at which the
\* pattern of two identical calls has repeated, whichever comes first
C40_PatternPart ==
    LET L == detector.consecutiveIdenticalToolCallLimit
        first == IF detector.historyMaxLength >= PatternBlocksAt(detector)
                 THEN MinOf(L, PatternBlocksAt(detector)) ELSE L
    IN  (L >= 1 /\ IdenticalRun(detector)) =>
            /\ \A k \in Blocked(detector) : k >= first
            /\ Len(detector.verdicts) >= first => first \in Blocked(detector)

\* The default detector refuses the third identical call, given with its
\* parameters in another order
C40_WitnessDefault ==
    /\ detector.consecutiveIdenticalToolCallLimit = 3
    /\ IdenticalRun(detector) /\ Blocked(detector) = {3}
    /\ detector.toolCallHistory # <<>>

====
